---- MODULE Spec2Model ----
(***************************************************************************)
(* A model of the SVRTK reconstruction core (src/src/Reconstruction.cc).   *)
(*                                                                         *)
(* The module holds several specifications, one per part of the program:   *)
(*   SpecOrder     slice acquisition order (GetSliceAcquisitionOrder)      *)
(*   SpecRecon     coefficients, Gaussian reconstruction, EM statistics    *)
(*   SpecSR        super-resolution, regularisation, bias correction       *)
(*   SpecScale     the parallel loop of ScaleVolume                        *)
(*   SpecSim       SimulateStacks                                          *)
(*   SpecTemplate  template, mask and the operations that need them        *)
(*   SpecMatch     intensity matching of the stacks and its restoration    *)
(*   SpecEM        Scale, EStep and MStep of the robust statistics         *)
(*   SpecExclusion StructuralExclusion                                     *)
(*   SpecPhases    the statements of one Superresolution call              *)
(*   SpecPackage   PackageToVolume and newPackageToVolume                  *)
(*   SpecRegistered  the steps of SpecRecon from registered slices         *)
(* Each specification leaves the variables of the other parts at their     *)
(* idle values.                                                            *)
(***************************************************************************)
EXTENDS Integers, Sequences, FiniteSets, TLC

VARIABLES
    pc,             \* control state of the run: "init", "done", "crashed", ...
    \* ---- slice acquisition order ----
    stacks,         \* attr._z of every stack handed to GetSliceAcquisitionOrder
    pack_num,       \* package count per stack
    order,          \* order code per stack
    step,           \* custom step (order code 5)
    rewinder,       \* custom rewinder (order code 5)
    z_slice_order,  \* _z_slice_order
    t_slice_order,  \* _t_slice_order
    \* ---- volume, slices and coefficients ----
    template_created,   \* _template_created
    have_mask,          \* _have_mask
    reconstructed,      \* _reconstructed: the volume V, voxel -> intensity
    mask,               \* _mask: voxel -> 0 or 1
    slices,             \* _slices: slice -> pixel -> intensity (-1 is padding)
    transformations,    \* _transformations: slice -> pose
    force_excluded,     \* _force_excluded
    volcoeffs,          \* _volcoeffs: slice -> pixel -> list of POINT3D
    slice_inside,       \* _slice_inside
    volume_weights,     \* _volume_weights
    average_volume_weight, \* _average_volume_weight
    small_slices,       \* _small_slices
    \* ---- EM robust statistics ----
    weights,            \* _weights: slice -> pixel -> voxel weight
    bias,               \* _bias
    scale,              \* _scale
    slice_weight,       \* _slice_weight
    slice_potential,    \* the slice potentials of the last EStep
    simulated_slices,   \* _simulated_slices
    simulated_weights,  \* _simulated_weights
    simulated_inside,   \* _simulated_inside
    min_intensity,      \* _min_intensity
    max_intensity,      \* _max_intensity
    robust,             \* _sigma, _mix, _m, _sigma_s, _sigma_s2, _mix_s, _mean_s, _mean_s2
    iter,               \* the iteration counter of the caller's loop
    \* ---- super-resolution ----
    params,             \* _alpha, _lambda, _delta, _low_intensity_cutoff, _adaptive,
                        \* _global_bias_correction
    confidence_map,     \* _confidence_map
    slice_dif,          \* _slice_dif
    \* ---- ScaleVolume ----
    scalenum,           \* the shared sum scalenum of the call in progress
    scaleden,           \* the shared sum scaleden of the call in progress
    threads,            \* thread -> position in the parallel loop and loaded value
    \* ---- SimulateStacks ----
    stack_index,        \* _stack_index
    sim_stacks,         \* the stacks SimulateStacks writes: stack -> z -> pixel
    \* ---- intensity matching ----
    image_stacks,       \* the argument stacks of the matching: stack -> z -> pixel
    stack_roi,          \* stack -> z -> pixel -> the voxel maps into the mask ROI
    original_stacks,    \* the stacks as they were before the matching
    stack_factor,       \* _stack_factor
    average_value,      \* _average_value
    cerr_stack,         \* the stack index written to cerr by a fatal matching
    \* ---- structural exclusion ----
    reg_slice_weight,   \* _reg_slice_weight
    computed_ncc,       \* slice -> the value ComputeNCC returned for it
    \* ---- the statements of one Superresolution call ----
    sr_pc,              \* the statement of Superresolution that runs next, or "idle"
    sr_original,        \* the local image original
    sr_addon,           \* the local image addon
    sr_log,             \* the phases of the call so far, each with its volume argument
    \* ---- package to volume registration ----
    slice_positive,     \* slice -> the slice has a voxel above 0
    previous_transformations,   \* _previous_transformations
    package_pose,       \* <<stack, package>> -> the pose its registration returned
    \* ---- remote slice to volume registration ----
    offset_matrices,    \* _offset_matrices
    dof_files,          \* the files res-transformation-<i>.dof of the exchange directory
    svr_range_start,    \* the local svr_range_start
    svr_range_stop,     \* the local svr_range_stop
    svr_ranges,         \* the ranges the remote registration was invoked with
    remote_pc,          \* the statement of the remote registration that runs next
    remote_calls,       \* the number of calls of RemoteSliceToVolumeRegistration
    \* ---- the layout of the slices in their stacks ----
    slice_pos,          \* _slice_pos
    package_index,      \* _package_index
    excluded_entirely,  \* _excluded_entirely
    n_packages,         \* _n_packages
    stack_transformations,  \* the argument stack_transformations
    \* ---- CropImage ----
    crop_mask,          \* the argument mask: the set of its voxels above 0
    crop_image,         \* the argument image: the region of the input it holds
    \* ---- locals kept for inspection ----
    voxel_num,          \* the local voxel_num of the last GaussianReconstruction
    \* ---- reports ----
    ratio_excluded,     \* ReconQualityReport: <<count_excluded, _slices.size()>>
    evaluate_out,       \* Evaluate: the slices listed as included, excluded, outside
    slices_info,        \* SlicesInfo: slice -> its included, excluded, outside columns
    last                \* the operation that ran last

orderVars == <<stacks, pack_num, order, step, rewinder, z_slice_order, t_slice_order>>

volumeVars == <<template_created, have_mask, reconstructed, mask>>

sliceVars == <<slices, transformations, force_excluded>>

coeffVars == <<volcoeffs, slice_inside, volume_weights, average_volume_weight>>

simVars == <<simulated_slices, simulated_weights, simulated_inside>>

emVars == <<weights, bias, scale, slice_weight, slice_potential, min_intensity,
            max_intensity, robust, iter>>

srVars == <<params, confidence_map, slice_dif>>

scaleVars == <<scalenum, scaleden, threads>>

stackVars == <<stack_index, sim_stacks>>

partVars == <<srVars, scaleVars, stackVars>>

matchVars == <<image_stacks, stack_roi, original_stacks, stack_factor, average_value,
               cerr_stack>>

nccVars == <<reg_slice_weight, computed_ncc>>

phaseVars == <<sr_pc, sr_original, sr_addon, sr_log>>

packVars == <<slice_positive, previous_transformations, package_pose>>

remoteVars == <<offset_matrices, dof_files, svr_range_start, svr_range_stop, svr_ranges,
                remote_pc, remote_calls>>

layoutVars == <<slice_pos, package_index, excluded_entirely, n_packages,
                stack_transformations>>

cropVars == <<crop_mask, crop_image>>

reportVars == <<ratio_excluded, evaluate_out, slices_info>>

tailVars == <<cropVars, voxel_num, reportVars>>

laterVars == <<remoteVars, layoutVars, tailVars>>

otherVars == <<matchVars, nccVars, phaseVars, packVars, laterVars>>

vars == <<pc, last, orderVars, volumeVars, sliceVars, coeffVars, small_slices, simVars, emVars,
          partVars, otherVars>>

(***************************************************************************)
(* Bounds of the model.                                                    *)
(***************************************************************************)
MaxZ == 12
MaxZPair == 3
MaxStep == 3
MaxRewinder == 3
NumSlices == 4
NumPixels == 2
NumVoxels == 2
MaxExcluded == 1
MaxIter == 2
NumThreads == 2
MaxScaleCalls == 1

NumStacks == 2

StackZ == 1

MaxPackZ == 3

(***************************************************************************)
(* Helpers.                                                                *)
(***************************************************************************)
\* round(sqrt(double(n))) for n >= 0: the r with (r - 1/2)^2 <= n < (r + 1/2)^2
RoundSqrt(n) ==
    IF n = 0 THEN 0
    ELSE CHOOSE r \in 1..n : r * r - r < n /\ n <= r * r + r

\* an array of n ints, indexed from 0, as a function
ArrayOf(n, v) == [i \in 0..(n - 1) |-> v]

(***************************************************************************)
(* GetSliceAcquisitionOrder, lines 2742-2835.                              *)
(*                                                                         *)
(* A computed order is a record                                            *)
(*   zo, to   the local arrays z_slice_order and t_slice_order (from 0)    *)
(*   tw       the indices of t_slice_order that were written               *)
(*   ub       TRUE when an index outside an array was used                 *)
(* A value read from outside an array is kept as -1 (no position is        *)
(* negative) until the outcome of the call is chosen.                      *)
(***************************************************************************)

\* lines 2757-2770: the ascending / descending loop
RECURSIVE AscDescLoop(_, _, _, _, _, _, _)
AscDescLoop(counter, slice_pos_counter, p, res, z, P, ord) ==
    IF counter >= z THEN res
    ELSE
        LET inb  == slice_pos_counter \in 0..(z - 1)
            zo1  == [res.zo EXCEPT ![counter] = slice_pos_counter]
            to1  == IF inb THEN [res.to EXCEPT ![slice_pos_counter] = counter] ELSE res.to
            tw1  == IF inb THEN res.tw \cup {slice_pos_counter} ELSE res.tw
            pos1 == slice_pos_counter + P
            wrap == IF ord = 1 THEN pos1 >= z ELSE pos1 < 0
            p1   == IF wrap THEN p + 1 ELSE p
            pos2 == IF wrap THEN (IF ord = 1 THEN p1 ELSE z - 1 - p1) ELSE pos1
        IN AscDescLoop(counter + 1, pos2, p1,
                       [zo |-> zo1, to |-> to1, tw |-> tw1, ub |-> res.ub \/ ~inb],
                       z, P, ord)

\* lines 2774-2782: the rewinder of the interleaved orders
RewinderFactor(ord, rew) ==
    IF ord = 3 \/ ord = 4 THEN 1 ELSE rew

\* StepFactor with the default interleaved order stepping by one
StepFactorUnit(ord, stp, slicesPerPackage, more) ==
    IF ord = 3 THEN 1
    ELSE IF ord = 4
         THEN (IF more THEN RoundSqrt(slicesPerPackage + 1) ELSE RoundSqrt(slicesPerPackage))
         ELSE stp

\* lines 2774-2793: the step of the interleaved orders; more is TRUE for a
\* package that holds one slice more than slicesPerPackage
StepFactor(ord, stp, slicesPerPackage, more) ==
    IF ord = 3 THEN 2
    ELSE IF ord = 4
         THEN (IF more THEN RoundSqrt(slicesPerPackage + 1) ELSE RoundSqrt(slicesPerPackage))
         ELSE stp

\* FakeAscending without the last slice of the larger packages
FakeAscendingShort(p, z, P, slicesPerPackage) ==
    [s \in 1..slicesPerPackage |-> (s - 1) * P + p]

\* lines 2795-2806: the positions of package p in ascending order
FakeAscending(p, z, P, slicesPerPackage) ==
    LET middle == [s \in 1..slicesPerPackage |-> (s - 1) * P + p]
        extra  == slicesPerPackage * P + p
    IN IF z > slicesPerPackage * P /\ extra < z
       THEN Append(middle, extra)
       ELSE middle

\* lines 2809-2815: the shuffle of one package; fake is indexed from 1, index
\* and restart count from 0 as in the code
RECURSIVE Shuffle(_, _, _, _, _, _, _)
Shuffle(i, index, restart, fake, stepFactor, rewinderFactor, out) ==
    IF i >= Len(fake) THEN out
    ELSE
        LET over     == index >= Len(fake)
            restart1 == IF over THEN restart + rewinderFactor ELSE restart
            index1   == IF over THEN restart1 ELSE index
            inb      == index1 < Len(fake)
            v        == IF inb THEN fake[index1 + 1] ELSE -1
        IN Shuffle(i + 1, index1 + stepFactor, restart1, fake, stepFactor, rewinderFactor,
                   [seq |-> Append(out.seq, v), ub |-> out.ub \/ ~inb])

\* lines 2785-2818: the loop over the packages
RECURSIVE Packages(_, _, _, _, _, _, _, _)
Packages(p, counter, z, P, ord, stp, rew, out) ==
    IF p >= P THEN out
    ELSE
        LET slicesPerPackage == z \div P
            more     == ord = 4 /\ z - counter > slicesPerPackage * P
            counter1 == IF more THEN counter + 1 ELSE counter
            fake     == FakeAscending(p, z, P, slicesPerPackage)
            sh       == Shuffle(0, 0, 0, fake, StepFactor(ord, stp, slicesPerPackage, more),
                                RewinderFactor(ord, rew), [seq |-> <<>>, ub |-> FALSE])
        IN Packages(p + 1, counter1, z, P, ord, stp, rew,
                    [seq |-> out.seq \o sh.seq, ub |-> out.ub \/ sh.ub])

\* lines 2821-2824: saving realInterleaved into the two local arrays
RECURSIVE Saving(_, _, _, _)
Saving(i, real, z, res) ==
    IF i >= z THEN res
    ELSE
        LET have == i + 1 <= Len(real)
            v    == IF have THEN real[i + 1] ELSE -1
            inb  == v \in 0..(z - 1)
        IN Saving(i + 1, real, z,
                  [zo |-> [res.zo EXCEPT ![i] = v],
                   to |-> IF inb THEN [res.to EXCEPT ![v] = i] ELSE res.to,
                   tw |-> IF inb THEN res.tw \cup {v} ELSE res.tw,
                   ub |-> res.ub \/ ~have \/ ~inb])

\* lines 2746-2827: the order of one stack of z slices
StackOrder(z, P, ord, stp, rew) ==
    LET empty == [zo |-> ArrayOf(z, -1), to |-> ArrayOf(z, -1), tw |-> {}, ub |-> FALSE]
    IN IF ord = 1 \/ ord = 2
       THEN AscDescLoop(0, 0, 0, empty, z, P, ord)
       ELSE LET real == Packages(0, 0, z, P, ord, stp, rew, [seq |-> <<>>, ub |-> FALSE])
            IN Saving(0, real.seq, z, [empty EXCEPT !.ub = real.ub])

\* lines 2830-2833: an entry of t_slice_order that was never written is read
\* uninitialised
StackUB(r, z) == r.ub \/ r.tw # 0..(z - 1)

\* the value the build leaves in an array entry: the computed one, or g where
\* the entry is uninitialised or was read from outside an array
Settle(v, g) == IF v = -1 THEN g ELSE v

\* lines 2745-2834 for every stack: the entries appended to the two vectors
RECURSIVE Appended(_, _, _, _, _, _, _)
Appended(dyn, zs, Ps, ords, stp, rew, g) ==
    IF dyn > Len(zs) THEN [z |-> <<>>, t |-> <<>>]
    ELSE
        LET r    == StackOrder(zs[dyn], Ps[dyn], ords[dyn], stp, rew)
            rest == Appended(dyn + 1, zs, Ps, ords, stp, rew, g)
        IN [z |-> [i \in 1..zs[dyn] |-> Settle(r.zo[i - 1], g)] \o rest.z,
            t |-> [i \in 1..zs[dyn] |-> Settle(r.to[i - 1], g)] \o rest.t]

\* TRUE when the call uses an index outside an array or reads an
\* uninitialised entry for some stack
CallUB(zs, Ps, ords, stp, rew) ==
    \E dyn \in 1..Len(zs) :
        StackUB(StackOrder(zs[dyn], Ps[dyn], ords[dyn], stp, rew), zs[dyn])

\* what an uninitialised or out-of-range read may yield
GarbageValues == {-1, 0, 1}

(***************************************************************************)
(* Fixed-point arithmetic.  A real number r is kept as the integer         *)
(* r * 1000 (thousandths): 1000 is 1.0, -1000 the padding value -1, 980    *)
(* the coverage threshold 0.98.                                            *)
(***************************************************************************)
Mul(a, b) == (a * b) \div 1000

Div(a, b) == (a * 1000) \div b

\* exp(-t) for t >= 0, tabulated in steps of 0.25; below 0.0005 it is 0
ExpNeg(t) ==
    LET table == <<1000, 779, 607, 472, 368, 287, 223, 174, 135, 105, 82, 64, 50, 39,
                   30, 24, 18, 14, 11, 9, 7, 5, 4, 3, 2, 2, 1, 1, 1, 1>>
        k     == (t \div 250) + 1
    IN IF k <= Len(table) THEN table[k] ELSE 0

\* the largest r in lo..hi with r * r <= n
RECURSIVE RootBetween(_, _, _)
RootBetween(n, lo, hi) ==
    IF lo >= hi THEN lo
    ELSE LET mid == (lo + hi + 1) \div 2
         IN IF mid * mid <= n THEN RootBetween(n, mid, hi) ELSE RootBetween(n, lo, mid - 1)

\* the square root of a >= 0
Sqrt(a) == RootBetween(a * 1000, 0, 40000)

(***************************************************************************)
(* Arrays: an Array<T> of n entries is a function on 0..n-1.               *)
(***************************************************************************)
Size(a) == Cardinality(DOMAIN a)

EmptyArray == [i \in {} |-> 0]

PushBack(a, v) == [i \in 0..Size(a) |-> IF i < Size(a) THEN a[i] ELSE v]

RECURSIVE SumOver(_, _)
SumOver(f, S) ==
    IF S = {} THEN 0
    ELSE LET x == CHOOSE y \in S : TRUE IN f[x] + SumOver(f, S \ {x})

\* the value of a double that is not a number (0 / 0)
NotANumber == 0 - 2000000000

Slices == 0..(NumSlices - 1)

Pixels == 0..(NumPixels - 1)

Voxels == 0..(NumVoxels - 1)

\* a slice pixel is active when its value is above -0.01
Active(v) == v > -10

\* TRUE when i is listed in the array fe (the loops over _force_excluded)
Listed(fe, i) == \E k \in DOMAIN fe : fe[k] = i

(***************************************************************************)
(* The coefficients Parallel::CoeffInit builds for a slice pixel depend on *)
(* the pose of the slice.  A pose is one of                                *)
(*   0  the slice lies in the volume: pixel j covers voxel j               *)
(*   1  the slice lies between voxels: pixel j covers voxels j and j+1     *)
(*      with half of its weight each                                       *)
(*   2  the slice lies outside the volume: no pixel covers a voxel         *)
(*   3  the slice lies on the border of the volume: pixel j covers voxel j *)
(*      with half of its weight, the other half falls outside              *)
(***************************************************************************)
Poses == {0, 1, 2, 3}

PoseCoeffs(pose, j) ==
    IF pose = 0 THEN <<[x |-> j % NumVoxels, value |-> 1000]>>
    ELSE IF pose = 1 THEN <<[x |-> j % NumVoxels, value |-> 500],
                            [x |-> (j + 1) % NumVoxels, value |-> 500]>>
    ELSE IF pose = 3 THEN <<[x |-> j % NumVoxels, value |-> 500]>>
    ELSE <<>>

\* Parallel::CoeffInit for slice i: a force-excluded slice is skipped and
\* keeps the empty SLICECOEFFS of ClearAndResize; a padded pixel gets no
\* coefficients, and no pixel gets any while the volume has no voxel
ParallelCoeffInit(i) ==
    IF Listed(force_excluded, i) THEN EmptyArray
    ELSE [j \in Pixels |-> IF Active(slices[i][j]) /\ DOMAIN reconstructed # {}
                           THEN PoseCoeffs(transformations[i], j)
                           ELSE <<>>]

\* Parallel::CoeffInit: inside_i = 1 iff some coefficient of the slice points
\* into the mask
ParallelSliceInside(vc) ==
    \E j \in DOMAIN vc : \E k \in DOMAIN vc[j] :
        vc[j][k].x \in DOMAIN mask /\ mask[vc[j][k].x] = 1

\* line 1699 with its mutant: the volume weights CoeffInit starts from
VolumeWeightsKept(old) ==
    [x \in DOMAIN reconstructed |-> IF x \in DOMAIN old THEN old[x] ELSE 0]

VolumeWeightsInitialized(old) == [x \in DOMAIN reconstructed |-> 0]

\* lines 1714-1719: the PSF weights of slice i that point to voxel x; reading
\* the coefficients of a pixel the slice does not have is out of range
SliceWeightAt(vc, x) ==
    SumOver([j \in DOMAIN vc |->
                SumOver([k \in DOMAIN vc[j] |-> IF vc[j][k].x = x THEN vc[j][k].value ELSE 0],
                        DOMAIN vc[j])],
            DOMAIN vc)

\* line 1712: the slices whose coefficients CoeffInit adds to the volume weights
AccumulatedSlices(fe) == {i \in DOMAIN slices : ~Listed(fe, i)}

\* lines 1699-1721
VolumeWeights(vcs, fe, old) ==
    [x \in DOMAIN reconstructed |->
        VolumeWeightsInitialized(old)[x]
        + SumOver([i \in DOMAIN slices |-> SliceWeightAt(vcs[i], x)], AccumulatedSlices(fe))]

\* lines 1726-1738: the mean volume weight over the mask voxels; without
\* such a voxel it is 0 / 0
AverageVolumeWeight(vw) ==
    LET inmask == {x \in DOMAIN vw : mask[x] = 1}
    IN IF inmask = {} THEN NotANumber ELSE SumOver(vw, inmask) \div Cardinality(inmask)

(***************************************************************************)
(* The state of a Reconstruction object before any slice is created.       *)
(***************************************************************************)
reconVars == <<last, volumeVars, sliceVars, coeffVars, small_slices, simVars, emVars,
              partVars, otherVars>>

\* lines 143-153: the parameters the constructor sets
DefaultParams ==
    [alpha |-> 500, lambda |-> 100, delta |-> 1000, low_intensity_cutoff |-> 10,
     adaptive |-> FALSE, global_bias_correction |-> FALSE]

\* no call of ScaleVolume is in progress and no stack was simulated
PartIdle ==
    /\ confidence_map = EmptyArray
    /\ scalenum = 0
    /\ scaleden = 0
    /\ threads = EmptyArray
    /\ sim_stacks = EmptyArray

\* no stack was handed to the intensity matching
MatchIdle ==
    /\ image_stacks = EmptyArray
    /\ stack_roi = EmptyArray
    /\ original_stacks = EmptyArray
    /\ stack_factor = EmptyArray
    /\ average_value = 0
    /\ cerr_stack = -1

\* no structural exclusion has run
NccIdle ==
    /\ reg_slice_weight = EmptyArray
    /\ computed_ncc = EmptyArray

\* no call of Superresolution is in progress
PhaseIdle ==
    /\ sr_pc = "idle"
    /\ sr_original = EmptyArray
    /\ sr_addon = EmptyArray
    /\ sr_log = <<>>

\* no package registration has run
PackIdle ==
    /\ slice_positive = EmptyArray
    /\ previous_transformations = EmptyArray
    /\ package_pose = EmptyArray

\* no remote registration has run
RemoteIdle ==
    /\ offset_matrices = EmptyArray
    /\ dof_files = EmptyArray
    /\ svr_range_start = 0
    /\ svr_range_stop = 0
    /\ svr_ranges = <<>>
    /\ remote_pc = "idle"
    /\ remote_calls = 0

\* no slice was created and nothing is excluded entirely
LayoutIdle ==
    /\ slice_pos = EmptyArray
    /\ package_index = EmptyArray
    /\ excluded_entirely = EmptyArray
    /\ n_packages = EmptyArray
    /\ stack_transformations = EmptyArray

\* no image is being cropped
CropIdle ==
    /\ crop_mask = {}
    /\ crop_image = <<>>

\* nothing was reported
ReportIdle ==
    /\ ratio_excluded = <<>>
    /\ evaluate_out = <<>>
    /\ slices_info = <<>>

TailIdle == CropIdle /\ voxel_num = EmptyArray /\ ReportIdle

LaterIdle == RemoteIdle /\ LayoutIdle /\ TailIdle

OtherIdle == MatchIdle /\ NccIdle /\ PhaseIdle /\ PackIdle /\ LaterIdle

\* the constructed object apart from its slices and their poses
NoSliceState ==
    /\ last = "none"
    /\ template_created = FALSE
    /\ have_mask = FALSE
    /\ reconstructed = EmptyArray
    /\ mask = EmptyArray
    /\ force_excluded = EmptyArray
    /\ volcoeffs = EmptyArray
    /\ slice_inside = EmptyArray
    /\ volume_weights = EmptyArray
    /\ average_volume_weight = 0
    /\ small_slices = EmptyArray
    /\ simulated_slices = EmptyArray
    /\ simulated_weights = EmptyArray
    /\ simulated_inside = EmptyArray
    /\ weights = EmptyArray
    /\ bias = EmptyArray
    /\ scale = EmptyArray
    /\ slice_weight = EmptyArray
    /\ slice_potential = EmptyArray
    /\ min_intensity = 0
    /\ max_intensity = 0
    /\ iter = 0
    /\ robust = [sigma |-> 0, mix |-> 900, m |-> 0, sigma_s |-> 25, sigma_s2 |-> 25,
                 mix_s |-> 900, mean_s |-> 0, mean_s2 |-> 0]
    /\ params = DefaultParams
    /\ slice_dif = EmptyArray
    /\ stack_index = EmptyArray
    /\ PartIdle

ReconIdle ==
    /\ NoSliceState
    /\ slices = EmptyArray
    /\ transformations = EmptyArray

(***************************************************************************)
(* Specification SpecOrder: one call of GetSliceAcquisitionOrder.          *)
(***************************************************************************)
OrderCodes == 1..5

\* one stack: its size, package count (1 <= p <= z) and order code
OneStack(maxz) ==
    {<<z, P, o>> : z \in 1..maxz, P \in 1..maxz, o \in OrderCodes} \cap
    {s \in (1..maxz) \X (1..maxz) \X OrderCodes : s[2] <= s[1]}

StackArrays ==
    {<<s>> : s \in OneStack(MaxZ)} \cup
    {<<s1, s2>> : s1 \in OneStack(MaxZPair), s2 \in OneStack(MaxZPair)}

OrderIdle ==
    /\ stacks = <<>>
    /\ pack_num = <<>>
    /\ order = <<>>
    /\ step = 0
    /\ rewinder = 0
    /\ z_slice_order = <<>>
    /\ t_slice_order = <<>>

InitOrder ==
    /\ pc = "init"
    /\ \E a \in StackArrays :
        /\ stacks = [i \in 1..Len(a) |-> a[i][1]]
        /\ pack_num = [i \in 1..Len(a) |-> a[i][2]]
        /\ order = [i \in 1..Len(a) |-> a[i][3]]
    /\ step \in 1..MaxStep
    /\ rewinder \in 1..MaxRewinder
    /\ z_slice_order = <<>>
    /\ t_slice_order = <<>>
    /\ ReconIdle
    /\ OtherIdle

\* the call: without undefined behaviour it has one outcome; with it the
\* build may crash or leave any value in the entries concerned
GetSliceAcquisitionOrder ==
    /\ pc = "init"
    /\ LET ub == CallUB(stacks, pack_num, order, step, rewinder)
       IN \/ /\ \E g \in (IF ub THEN GarbageValues ELSE {0}) :
                  LET r == Appended(1, stacks, pack_num, order, step, rewinder, g)
                  IN /\ z_slice_order' = z_slice_order \o r.z
                     /\ t_slice_order' = t_slice_order \o r.t
             /\ pc' = IF ub THEN "done_ub" ELSE "done"
          \/ /\ ub
             /\ pc' = "crashed"
             /\ UNCHANGED <<z_slice_order, t_slice_order>>
    /\ UNCHANGED <<stacks, pack_num, order, step, rewinder, reconVars>>

NextOrder == GetSliceAcquisitionOrder

SpecOrder == InitOrder /\ [][NextOrder]_vars


(***************************************************************************)
(* The reconstruction: coefficients, Gaussian reconstruction and the EM    *)
(* robust statistics.                                                      *)
(***************************************************************************)
\* the arrays of n entries over S, listed in ascending order
SetToArray(S) ==
    [k \in 0..(Cardinality(S) - 1) |->
        CHOOSE v \in S : Cardinality({u \in S : u < v}) = k]

\* the slices CreateSlicesAndTransformations makes of the input stacks: all
\* pixels positive, or pixel 0 of every other slice padded
SliceArrays ==
    {[i \in Slices |-> [j \in Pixels |-> 1000 * (j + 1)]],
     [i \in Slices |-> [j \in Pixels |-> IF j = 0 /\ i % 2 = 1 THEN -1000 ELSE 2000 + 1000 * j]]}

\* the poses of the slices: all in the volume, or slice 1 between the voxels,
\* or slice 2 outside the volume
PoseArrays ==
    {[i \in Slices |-> 0],
     [i \in Slices |-> IF i = 1 THEN 1 ELSE 0],
     [i \in Slices |-> IF i = 2 THEN 2 ELSE 0]}

\* the k-th smallest entry (k counted from 0) of the array a: nth_element
NthElement(a, k) ==
    CHOOSE v \in {a[i] : i \in DOMAIN a} :
        /\ Cardinality({i \in DOMAIN a : a[i] < v}) <= k
        /\ Cardinality({i \in DOMAIN a : a[i] <= v}) > k

\* lines 1685-1744.  The loop of lines 1731-1736 reads the mask at every
\* voxel of the volume weights: with a mask of another size the read is out
\* of range, and the run may crash or take any value for the average.
CoeffInit ==
    /\ pc = "run"
    /\ LET vcs == [i \in DOMAIN slices |-> ParallelCoeffInit(i)]
           vw  == VolumeWeights(vcs, force_excluded, volume_weights)
           ub  == DOMAIN mask # DOMAIN vw
       IN /\ volcoeffs' = vcs
          /\ slice_inside' = [i \in DOMAIN slices |-> ParallelSliceInside(vcs[i])]
          /\ volume_weights' = vw
          /\ \/ /\ ~ub
                /\ average_volume_weight' = AverageVolumeWeight(vw)
                /\ pc' = pc
             \/ /\ ub
                /\ average_volume_weight' \in GarbageValues
                /\ pc' \in {pc, "crashed"}
    /\ last' = "CoeffInit"
    /\ UNCHANGED <<orderVars, otherVars, partVars, volumeVars, sliceVars, small_slices, simVars, emVars>>

\* lines 1759-1770: the slices GaussianReconstruction visits, in index order
VisitedSlices(fe) == SetToArray({i \in Slices : ~Listed(fe, i)})

\* lines 1772-1795: the number of active pixels of slice i with coefficients
SliceVoxNum(i) ==
    Cardinality({j \in Pixels : Active(slices[i][j]) /\ Len(volcoeffs[i][j]) > 0})

\* line 1804: voxel_num gets one entry per visited slice
VoxelNum(fe) ==
    LET visited == VisitedSlices(fe)
    IN [k \in DOMAIN visited |-> SliceVoxNum(visited[k])]

\* line 1785: the bias-corrected and scaled value of pixel j of slice i
Corrected(i, j) == Mul(slices[i][j], Mul(ExpNeg(bias[i][j]), scale[i]))

\* lines 1781-1803: what slice i adds to voxel x
SliceContribution(i, x) ==
    SumOver([j \in Pixels |->
                IF Active(slices[i][j])
                THEN SumOver([k \in DOMAIN volcoeffs[i][j] |->
                                 IF volcoeffs[i][j][k].x = x
                                 THEN Mul(volcoeffs[i][j][k].value, Corrected(i, j))
                                 ELSE 0],
                             DOMAIN volcoeffs[i][j])
                ELSE 0],
            Pixels)

\* image /= image of the imaging library: a voxel whose divisor is 0 becomes 0
ImageDiv(a, b) == [x \in DOMAIN a |-> IF b[x] = 0 THEN 0 ELSE Div(a[x], b[x])]

\* lines 1757-1810
GaussianVolume(fe) ==
    LET visited == VisitedSlices(fe)
        acc == [x \in Voxels |->
                   SumOver([k \in DOMAIN visited |-> SliceContribution(visited[k], x)],
                           DOMAIN visited)]
    IN ImageDiv(acc, volume_weights)

\* line 1817: round(voxel_num_tmp.size() * 0.5) - 1
MedianIndex(n) == ((n + 1) \div 2) - 1

\* lines 1822-1825: the indices pushed to _small_slices
SmallSlices(counted, median) ==
    SetToArray({i \in DOMAIN counted : 10 * counted[i] < median})

\* lines 1749-1835.  With no slice visited the median index is -1: the read
\* before the start of voxel_num_tmp is undefined, and the run may crash.
GaussianReconstruction ==
    /\ pc = "run"
    /\ Size(volcoeffs) = NumSlices
    /\ Size(scale) = NumSlices
    /\ LET counted == VoxelNum(force_excluded)
       IN /\ voxel_num' = counted
          /\ \/ /\ Size(counted) > 0
                /\ small_slices' =
                       SmallSlices(counted, NthElement(counted, MedianIndex(Size(counted))))
                /\ pc' = pc
             \/ /\ Size(counted) = 0
                /\ small_slices' = EmptyArray
                /\ pc' \in {"run", "crashed"}
    /\ reconstructed' = GaussianVolume(force_excluded)
    /\ last' = "GaussianReconstruction"
    /\ UNCHANGED <<orderVars, matchVars, nccVars, phaseVars, packVars, remoteVars, layoutVars,
                   cropVars, reportVars, partVars, template_created, have_mask, mask, sliceVars, coeffVars,
                   simVars, emVars>>

\* lines 2012-2026: the largest and the smallest positive pixel of the slices;
\* without a positive pixel the start values of the search stay
MaxIntensity(sl) ==
    LET pos == {sl[i][j] : i \in DOMAIN sl, j \in Pixels}
    IN IF \E v \in pos : v > 0
       THEN CHOOSE v \in pos : v > 0 /\ \A u \in pos : u <= v
       ELSE -1000000

MinIntensity(sl) ==
    LET pos == {sl[i][j] : i \in DOMAIN sl, j \in Pixels}
    IN IF \E v \in pos : v > 0
       THEN CHOOSE v \in pos : v > 0 /\ \A u \in pos : u > 0 => v <= u
       ELSE 1000000

\* lines 1992-2027
InitializeEM ==
    /\ pc = "run"
    /\ weights' = slices
    /\ bias' = slices
    /\ scale' = [i \in DOMAIN slices |-> 1000]
    /\ slice_weight' = [i \in DOMAIN slices |-> 1000]
    /\ max_intensity' = MaxIntensity(slices)
    /\ min_intensity' = MinIntensity(slices)
    /\ last' = "InitializeEM"
    /\ pc' = pc
    /\ UNCHANGED <<orderVars, otherVars, partVars, volumeVars, sliceVars, coeffVars, small_slices, simVars,
                   slice_potential, robust, iter>>

\* InitialWeight with the weight 1 for every pixel
InitialWeightOne(v) == 1000

\* lines 2035-2051 with line 2042: the voxel weight of a pixel of value v
InitialWeight(v) == IF Active(v) THEN 1000 ELSE 0

\* lines 2054-2056, 2099-2101 and 2129-2131: the entries of _force_excluded
\* the three loops act on
ForcedEntries(fe) == {fe[k] : k \in {n \in DOMAIN fe : fe[n] > 0 /\ fe[n] < NumSlices}}

\* lines 2032-2059
InitializeEMValues ==
    /\ pc = "run"
    /\ Size(slice_weight) = NumSlices
    /\ weights' = [i \in Slices |-> [j \in Pixels |-> InitialWeight(slices[i][j])]]
    /\ bias' = [i \in Slices |-> [j \in Pixels |-> 0]]
    /\ slice_weight' = [i \in Slices |-> IF i \in ForcedEntries(force_excluded) THEN 0 ELSE 1000]
    /\ scale' = [i \in Slices |-> 1000]
    /\ last' = "InitializeEMValues"
    /\ pc' = pc
    /\ UNCHANGED <<orderVars, otherVars, partVars, volumeVars, sliceVars, coeffVars, small_slices, simVars,
                   slice_potential, min_intensity, max_intensity, robust, iter>>

\* lines 2074-2083: the pixels of slice i that enter the voxel-wise sigma
SigmaPixels(i) ==
    {j \in Pixels : /\ Active(slices[i][j])
                    /\ simulated_inside[i][j] = 1000
                    /\ simulated_weights[i][j] > 990}

\* lines 2064-2117; sigma / num with num = 0 is not a number, kept as -1
InitializeRobustStatistics ==
    /\ pc = "run"
    /\ Size(slice_weight) = NumSlices
    /\ Size(slice_inside) = NumSlices
    /\ slice_weight' = [i \in Slices |->
                           IF i \in ForcedEntries(force_excluded) \/ ~slice_inside[i]
                           THEN 0 ELSE slice_weight[i]]
    /\ LET err(i, j) == slices[i][j] - simulated_slices[i][j]
           sigma == SumOver([i \in Slices |->
                                SumOver([j \in Pixels |-> Mul(err(i, j), err(i, j))],
                                        SigmaPixels(i))], Slices)
           num   == SumOver([i \in Slices |-> Cardinality(SigmaPixels(i))], Slices)
       IN robust' = [robust EXCEPT
                        !.sigma = IF num = 0 THEN -1 ELSE sigma \div num,
                        !.sigma_s = 25,
                        !.mix = 900,
                        !.mix_s = 900,
                        !.m = Div(1000, Mul(2100, max_intensity) - Mul(1900, min_intensity))]
    /\ last' = "InitializeRobustStatistics"
    /\ pc' = pc
    /\ UNCHANGED <<orderVars, otherVars, partVars, volumeVars, sliceVars, coeffVars, small_slices, simVars,
                   weights, bias, scale, slice_potential, min_intensity, max_intensity, iter>>

Max(a, b) == IF a >= b THEN a ELSE b

Min(a, b) == IF a <= b THEN a ELSE b

\* the Gaussian density G(x, s) of variance s
G(x, s) == Div(ExpNeg(Div(Mul(x, x), 2 * s)), Sqrt(Mul(6280, s)))

\* the slice potentials Parallel::EStep may return: the robust error of each
\* slice, or -1 for a slice without a valid pixel
PotentialArrays ==
    {[i \in Slices |-> 400 * i],
     [i \in Slices |-> IF i = 0 THEN 1600 ELSE 100],
     [i \in Slices |-> IF i = 1 THEN -1000 ELSE 300]}

\* lines 2128-2131: the force-excluded slices get the potential -1
ForceExcludedPotential(pot, fe) ==
    [i \in Slices |-> IF i \in ForcedEntries(fe) THEN -1000 ELSE pot[i]]

\* lines 2133-2135: the small slices get the potential -1
SmallSlicesPotential(pot, small) ==
    [i \in Slices |-> IF Listed(small, i) THEN -1000 ELSE pot[i]]

\* an EStep that keeps the potential of every slice, whatever its scale
ScalePotentialKept(pot) == pot

\* lines 2137-2140: the slices of unrealistic scale get the potential -1
ScalePotential(pot) ==
    [i \in Slices |-> IF scale[i] < 200 \/ scale[i] > 5000 THEN -1000 ELSE pot[i]]

\* lines 2154-2216: the parameters of the slice-wise mixture
SliceMixture(pot, W) ==
    LET valid   == {i \in Slices : pot[i] >= 0}
        den     == SumOver([i \in Slices |-> W[i]], valid)
        den2    == SumOver([i \in Slices |-> 1000 - W[i]], valid)
        sum     == SumOver([i \in Slices |-> Mul(pot[i], W[i])], valid)
        sum2    == SumOver([i \in Slices |-> Mul(pot[i], 1000 - W[i])], valid)
        mean_s  == IF den > 0 THEN Div(sum, den)
                   ELSE CHOOSE v \in {pot[i] : i \in valid} \cup {1000} :
                            \A u \in {pot[i] : i \in valid} \cup {1000} : v <= u
        mean_s2 == IF den2 > 0 THEN Div(sum2, den2)
                   ELSE ((CHOOSE v \in {pot[i] : i \in valid} \cup {0} :
                            \A u \in {pot[i] : i \in valid} \cup {0} : v >= u) + mean_s) \div 2
        sq(d)   == Mul(d, d)
        vsum    == SumOver([i \in Slices |-> Mul(sq(pot[i] - mean_s), W[i])], valid)
        vsum2   == SumOver([i \in Slices |-> Mul(sq(pot[i] - mean_s2), 1000 - W[i])], valid)
    IN [den      |-> den,
        mean_s   |-> mean_s,
        mean_s2  |-> mean_s2,
        sigma_s  |-> IF vsum > 0 /\ den > 0 THEN Max(Div(vsum, den), 1) ELSE 25,
        sigma_s2 |-> IF vsum2 > 0 /\ den2 > 0 THEN Max(Div(vsum2, den2), 1)
                     ELSE Max(sq(mean_s2 - mean_s) \div 4, 1)]

\* lines 2220-2251: the new weight of a slice of potential p and weight w
SliceWeight(p, w, mx, mix_s) ==
    IF p = -1000 THEN 0
    ELSE IF mx.den <= 0 \/ mx.mean_s2 <= mx.mean_s THEN 1000
    ELSE LET gs1 == IF p < mx.mean_s2 THEN G(p - mx.mean_s, mx.sigma_s) ELSE 0
             gs2 == IF p > mx.mean_s THEN G(p - mx.mean_s2, mx.sigma_s2) ELSE 0
             likelihood == Mul(gs1, mix_s) + Mul(gs2, 1000 - mix_s)
         IN IF likelihood > 0 THEN Div(Mul(gs1, mix_s), likelihood)
            ELSE IF p >= mx.mean_s2 THEN 0
            ELSE 1000

\* a mixing proportion that is the sum of the weights, not their mean
MixSSum(pot, W) ==
    LET valid == {i \in Slices : pot[i] >= 0}
    IN IF valid # {} THEN SumOver(W, valid) ELSE 900

\* lines 2253-2266
MixS(pot, W) ==
    LET valid == {i \in Slices : pot[i] >= 0}
    IN IF valid # {} THEN SumOver(W, valid) \div Cardinality(valid) ELSE 900

\* lines 2122-2266: what one EStep computes from the potentials parallel that
\* Parallel::EStep returned
EStepOutcome(parallel) ==
    LET pot == ScalePotential(
                   SmallSlicesPotential(
                       ForceExcludedPotential(parallel, force_excluded), small_slices))
        mx  == SliceMixture(pot, slice_weight)
        W   == [i \in Slices |-> SliceWeight(pot[i], slice_weight[i], mx, robust.mix_s)]
    IN [slice_potential |-> pot,
        slice_weight    |-> W,
        robust          |-> [robust EXCEPT !.mean_s = mx.mean_s, !.mean_s2 = mx.mean_s2,
                                           !.sigma_s = mx.sigma_s, !.sigma_s2 = mx.sigma_s2,
                                           !.mix_s = MixS(pot, W)]]

\* lines 2122-2279
EStep ==
    /\ pc = "run"
    /\ Size(slice_weight) = NumSlices
    /\ iter < MaxIter
    /\ \E parallel \in PotentialArrays :
        LET out == EStepOutcome(parallel)
        IN /\ slice_potential' = out.slice_potential
           /\ slice_weight' = out.slice_weight
           /\ robust' = out.robust
    /\ iter' = iter + 1
    /\ last' = "EStep"
    /\ pc' = pc
    /\ UNCHANGED <<orderVars, otherVars, partVars, volumeVars, sliceVars, coeffVars, small_slices, simVars,
                   weights, bias, scale, min_intensity, max_intensity>>

\* the registration of the slices to the volume gives every slice a new pose
SliceToVolumeRegistration ==
    /\ pc = "run"
    /\ last = "EStep"
    /\ iter < MaxIter
    /\ transformations' \in PoseArrays
    /\ last' = "SliceToVolumeRegistration"
    /\ pc' = pc
    /\ UNCHANGED <<orderVars, otherVars, partVars, volumeVars, slices, force_excluded, coeffVars, small_slices,
                   simVars, emVars>>

(***************************************************************************)
(* Specification SpecRecon: the state after the template, the mask and the *)
(* slices were created, then the reconstruction steps in any order.        *)
(* An operation that indexes the EM arrays or the coefficients is enabled  *)
(* once InitializeEM or CoeffInit has made them.                           *)
(***************************************************************************)
InitRecon ==
    /\ pc = "run"
    /\ OrderIdle
    /\ OtherIdle
    /\ last = "CreateSlicesAndTransformations"
    /\ template_created = TRUE
    /\ have_mask = TRUE
    /\ reconstructed = [x \in Voxels |-> 0]
    /\ mask = [x \in Voxels |-> 1]
    /\ slices \in SliceArrays
    /\ transformations = [i \in Slices |-> 0]
    /\ \E S \in SUBSET Slices :
        /\ Cardinality(S) <= MaxExcluded
        /\ force_excluded = SetToArray(S)
    /\ volcoeffs = EmptyArray
    /\ slice_inside = EmptyArray
    /\ volume_weights = EmptyArray
    /\ average_volume_weight = 0
    /\ small_slices = EmptyArray
    /\ simulated_slices = [i \in Slices |-> [j \in Pixels |-> 0]]
    /\ simulated_weights = [i \in Slices |-> [j \in Pixels |-> 1000]]
    /\ simulated_inside = [i \in Slices |-> [j \in Pixels |-> 1000]]
    /\ weights = EmptyArray
    /\ bias = EmptyArray
    /\ scale = EmptyArray
    /\ slice_weight = EmptyArray
    /\ slice_potential = EmptyArray
    /\ min_intensity = 0
    /\ max_intensity = 0
    /\ iter = 0
    /\ robust = [sigma |-> 0, mix |-> 900, m |-> 0, sigma_s |-> 25, sigma_s2 |-> 25,
                 mix_s |-> 900, mean_s |-> 0, mean_s2 |-> 0]
    /\ params = DefaultParams
    /\ slice_dif = [i \in Slices |-> [j \in Pixels |-> 0]]
    /\ stack_index = [i \in Slices |-> i \div 2]
    /\ PartIdle

NextRecon ==
    \/ CoeffInit
    \/ GaussianReconstruction
    \/ InitializeEM
    \/ InitializeEMValues
    \/ InitializeRobustStatistics
    \/ EStep
    \/ SliceToVolumeRegistration

SpecRecon == InitRecon /\ [][NextRecon]_vars

(***************************************************************************)
(* Super-resolution.  The volume of the model is one row of voxels: of the *)
(* 13 directions of the regularisation only the one along the row has a    *)
(* neighbour inside the volume, and its length |d| is 1.                   *)
(***************************************************************************)
\* exp(r) for 0 <= r < ln 2
ExpSeries(r) ==
    LET r2 == Mul(r, r)
        r3 == Mul(r2, r)
        r4 == Mul(r3, r)
    IN 1000 + r + (r2 \div 2) + (r3 \div 6) + (r4 \div 24)

\* exp(t); 693 is ln 2
RECURSIVE Exp(_)
Exp(t) ==
    IF t < 0 THEN Exp(t + 693) \div 2
    ELSE IF t >= 693 THEN 2 * Exp(t - 693)
    ELSE ExpSeries(t)

\* log(x) for x > 0
RECURSIVE Ln(_)
Ln(x) ==
    IF x >= 2000 THEN 693 + Ln(x \div 2)
    ELSE IF x < 1000 THEN Ln(2 * x) - 693
    ELSE LET u  == Div(x - 1000, x + 1000)
             u3 == Mul(Mul(u, u), u)
             u5 == Mul(Mul(u3, u), u)
         IN 2 * (u + (u3 \div 3) + (u5 \div 5))

\* lines 2314-2329
SliceDifference ==
    [i \in Slices |-> [j \in Pixels |->
        IF Active(slices[i][j]) THEN Corrected(i, j) - simulated_slices[i][j] ELSE 0]]

\* the sum over the coefficient entries of slice i that point to voxel x of
\* w_i(pixel) * v * f(pixel)
CoefficientSum(i, x, f) ==
    SumOver([j \in Pixels |->
                SumOver([k \in DOMAIN volcoeffs[i][j] |->
                            IF volcoeffs[i][j][k].x = x
                            THEN Mul(Mul(weights[i][j], volcoeffs[i][j][k].value), f[j])
                            ELSE 0],
                        DOMAIN volcoeffs[i][j])],
            DOMAIN volcoeffs[i])

\* Parallel::Superresolution: the addon volume and the confidence map
ParallelAddon(dif) ==
    [x \in Voxels |->
        SumOver([i \in Slices |-> Mul(slice_weight[i], CoefficientSum(i, x, dif[i]))], Slices)]

ParallelConfidence ==
    [x \in Voxels |->
        SumOver([i \in Slices |->
                    Mul(slice_weight[i], CoefficientSum(i, x, [j \in Pixels |-> 1000]))],
                Slices)]

\* lines 2354-2366
NormalisedAddon(addon, cm) ==
    [x \in Voxels |-> IF ~params.adaptive /\ cm[x] > 0 THEN Div(addon[x], cm[x]) ELSE addon[x]]

NormalisedConfidence(cm) ==
    [x \in Voxels |-> IF ~params.adaptive /\ cm[x] > 0 THEN 1000 ELSE cm[x]]

\* lines 2374-2378 and 2487-2490
Clamp(v) ==
    LET lo == Mul(min_intensity, 900)
        hi == Mul(max_intensity, 1100)
    IN IF v < lo THEN lo ELSE IF v > hi THEN hi ELSE v

\* lines 2369-2379: the update of the volume and the bound of its intensities
Updated(V, addon) == [x \in Voxels |-> Clamp(V[x] + Mul(addon[x], params.alpha))]

\* the edge weight b at voxel x towards voxel y on the volume V0
EdgeWeight(V0, x, y) ==
    LET diff == V0[y] - V0[x]
    IN ExpNeg(Div(Mul(diff, diff), Mul(params.delta, params.delta)))

\* Parallel::AdaptiveRegularization1 and 2: the terms of the direction along
\* the row; a term that needs a voxel outside the volume is left out
ForwardTerm(V0, V1, x) ==
    IF x + 1 \in Voxels THEN Mul(EdgeWeight(V0, x, x + 1), V1[x + 1] - V1[x]) ELSE 0

BackwardTerm(V0, V1, x) ==
    IF x - 2 \in Voxels THEN Mul(EdgeWeight(V0, x - 1, x - 2), V1[x] - V1[x - 1]) ELSE 0

\* lines 2425-2444.  The confidence is above 0 in every voxel a slice of
\* positive weight covers; elsewhere the voxel keeps its value.
AdaptiveRegularization(V0, V1, cm) ==
    [x \in Voxels |->
        IF cm[x] > 0
        THEN V1[x] + Div(Mul(Mul(params.alpha, params.lambda),
                             ForwardTerm(V0, V1, x) - BackwardTerm(V0, V1, x)), cm[x])
        ELSE V1[x]]

\* lines 2461: the voxels that enter the residual
ResidualVoxels(V0, V) ==
    {x \in Voxels : /\ mask[x] = 1
                    /\ V0[x] > Mul(params.low_intensity_cutoff, max_intensity)
                    /\ V[x] > Mul(params.low_intensity_cutoff, max_intensity)}

\* lines 2449-2497.  The kernel of the blurring (sigma 12) is flat over the
\* short row of the model: residual and weight are each the same multiple of
\* their sum in every voxel, so their quotient is the mean of the log
\* residuals, and 0 / 0, not a number, when no voxel enters.
BiasCorrectVolume(V0, V) ==
    LET valid == ResidualVoxels(V0, V)
        mean  == SumOver([x \in valid |-> Ln(Div(V[x], V0[x]))], valid) \div Cardinality(valid)
    IN [x \in Voxels |->
           IF mask[x] # 1 THEN V[x]
           ELSE IF valid = {} THEN NotANumber
           ELSE Clamp(Div(V[x], Exp(mean)))]

\* lines 2334-2389
Superresolution ==
    /\ pc = "run"
    /\ Size(slice_weight) = NumSlices
    /\ Size(volcoeffs) = NumSlices
    /\ iter < MaxIter
    /\ LET original == reconstructed
           dif      == SliceDifference
           cm       == NormalisedConfidence(ParallelConfidence)
           V1       == Updated(reconstructed, NormalisedAddon(ParallelAddon(dif), ParallelConfidence))
           V2       == AdaptiveRegularization(original, V1, cm)
           V3       == IF params.global_bias_correction THEN BiasCorrectVolume(original, V2)
                       ELSE V2
       IN /\ slice_dif' = dif
          /\ confidence_map' = cm
          /\ reconstructed' = V3
          /\ pc' = IF \E x \in Voxels : V3[x] = NotANumber THEN "nan" ELSE pc
    /\ iter' = iter + 1
    /\ last' = "Superresolution"
    /\ UNCHANGED <<orderVars, otherVars, scaleVars, stackVars, params, template_created, have_mask, mask,
                   sliceVars, coeffVars, small_slices, simVars, weights, bias, scale,
                   slice_weight, slice_potential, min_intensity, max_intensity, robust>>

\* the simulated slices of the model's poses: Parallel::SimulateSlices with
\* every slice in the volume gives pixel j the value of voxel j
SimulateSlices ==
    /\ pc = "run"
    /\ last = "Superresolution"
    /\ simulated_slices' = [i \in Slices |-> [j \in Pixels |->
                               IF Active(slices[i][j]) /\ Len(volcoeffs[i][j]) > 0
                               THEN reconstructed[volcoeffs[i][j][1].x] ELSE 0]]
    /\ last' = "SimulateSlices"
    /\ pc' = pc
    /\ UNCHANGED <<orderVars, otherVars, partVars, volumeVars, sliceVars, coeffVars, small_slices,
                   simulated_weights, simulated_inside, emVars>>

(***************************************************************************)
(* Specification SpecSR: the state after CoeffInit and the EM              *)
(* initialisation, then super-resolution steps.                            *)
(***************************************************************************)
VolumeChoices ==
    {[x \in Voxels |-> 1000 + 500 * x], [x \in Voxels |-> 2000]}

SliceWeightChoices ==
    {[i \in Slices |-> 1000], [i \in Slices |-> IF i = 0 THEN 10 ELSE 0]}

InitSR ==
    /\ pc = "run"
    /\ OrderIdle
    /\ OtherIdle
    /\ PartIdle
    /\ last = "InitializeEMValues"
    /\ template_created = TRUE
    /\ have_mask = TRUE
    /\ reconstructed \in VolumeChoices
    /\ mask \in {[x \in Voxels |-> 1], [x \in Voxels |-> IF x = 0 THEN 1 ELSE 0]}
    /\ slices \in SliceArrays
    /\ transformations = [i \in Slices |-> 0]
    /\ force_excluded = EmptyArray
    /\ volcoeffs = [i \in Slices |-> ParallelCoeffInit(i)]
    /\ slice_inside = [i \in Slices |-> ParallelSliceInside(volcoeffs[i])]
    /\ volume_weights = VolumeWeights(volcoeffs, force_excluded, EmptyArray)
    /\ average_volume_weight = AverageVolumeWeight(volume_weights)
    /\ small_slices = EmptyArray
    /\ simulated_slices \in {[i \in Slices |-> [j \in Pixels |-> 0]],
                             [i \in Slices |-> [j \in Pixels |-> reconstructed[j]]]}
    /\ simulated_weights = [i \in Slices |-> [j \in Pixels |-> 1000]]
    /\ simulated_inside = [i \in Slices |-> [j \in Pixels |-> 1000]]
    /\ weights = [i \in Slices |-> [j \in Pixels |-> InitialWeight(slices[i][j])]]
    /\ bias = [i \in Slices |-> [j \in Pixels |-> 0]]
    /\ scale = [i \in Slices |-> 1000]
    /\ slice_weight \in SliceWeightChoices
    /\ slice_potential = EmptyArray
    /\ min_intensity = MinIntensity(slices)
    /\ max_intensity = MaxIntensity(slices)
    /\ iter = 0
    /\ robust = [sigma |-> 0, mix |-> 900, m |-> 0, sigma_s |-> 25, sigma_s2 |-> 25,
                 mix_s |-> 900, mean_s |-> 0, mean_s2 |-> 0]
    /\ \E a \in BOOLEAN, g \in BOOLEAN :
        params = [DefaultParams EXCEPT !.adaptive = a, !.global_bias_correction = g]
    /\ slice_dif = [i \in Slices |-> [j \in Pixels |-> 0]]
    /\ stack_index = [i \in Slices |-> i \div 2]

NextSR ==
    \/ Superresolution
    \/ SimulateSlices

SpecSR == InitSR /\ [][NextSR]_vars

\* C7: when Superresolution returns, every voxel of the volume lies between
\* 0.9 times the smallest and 1.1 times the largest intensity InitializeEM
\* found.
C7_ClampContract ==
    last = "Superresolution" =>
        \A x \in Voxels :
            /\ reconstructed[x] >= Mul(min_intensity, 900)
            /\ reconstructed[x] <= Mul(max_intensity, 1100)

(***************************************************************************)
(* ScaleVolume.  The loop over the slices runs in parallel (line 666) and  *)
(* every iteration adds to the shared sums scalenum and scaleden with a    *)
(* plain +=, a load followed by a store.  The threads share the slices in  *)
(* blocks; a thread is at an item (slice, pixel) of its block and in one   *)
(* of four phases.                                                         *)
(***************************************************************************)
Threads == 0..(NumThreads - 1)

\* the block of slices of thread t
Block(t) ==
    LET size == (NumSlices + NumThreads - 1) \div NumThreads
    IN {i \in Slices : i \div size = t}

\* lines 677-681: the pixels that add to the sums
Scaled(i, j) == slices[i][j] # -1000 /\ simulated_weights[i][j] > 990

\* the items of thread t in the order of the loops: item k is <<slice, pixel>>
Items(t) ==
    LET S == {i * NumPixels + j : i \in Block(t), j \in Pixels} \cap
             {n \in 0..(NumSlices * NumPixels - 1) : Scaled(n \div NumPixels, n % NumPixels)}
        a == SetToArray(S)
    IN [k \in 1..Cardinality(S) |-> <<a[k - 1] \div NumPixels, a[k - 1] % NumPixels>>]

\* line 682
NumTerm(i, j) ==
    Mul(Mul(Mul(weights[i][j], slice_weight[i]), slices[i][j]), simulated_slices[i][j])

\* line 683
DenTerm(i, j) ==
    Mul(Mul(Mul(weights[i][j], slice_weight[i]), simulated_slices[i][j]),
        simulated_slices[i][j])

\* line 664 and the start of the parallel loop
ScaleVolumeCall ==
    /\ pc = "run"
    /\ Size(slice_weight) = NumSlices
    /\ iter < MaxScaleCalls
    /\ scalenum' = 0
    /\ scaleden' = 0
    /\ threads' = [t \in Threads |-> [item |-> 1, phase |-> "num_load", reg |-> 0]]
    /\ pc' = "scaling"
    /\ last' = "ScaleVolumeCall"
    /\ UNCHANGED <<orderVars, otherVars, srVars, stackVars, volumeVars, sliceVars, coeffVars,
                   small_slices, simVars, emVars>>

\* the load of a += at lines 682 and 683
ThreadLoad ==
    /\ pc = "scaling"
    /\ \E t \in Threads :
        /\ threads[t].item <= Len(Items(t))
        /\ threads[t].phase \in {"num_load", "den_load"}
        /\ threads' = [threads EXCEPT
               ![t].reg = IF threads[t].phase = "num_load" THEN scalenum ELSE scaleden,
               ![t].phase = IF threads[t].phase = "num_load" THEN "num_store"
                            ELSE "den_store"]
    /\ pc' = pc
    /\ last' = "ThreadLoad"
    /\ UNCHANGED <<orderVars, otherVars, srVars, stackVars, scalenum, scaleden, volumeVars, sliceVars,
                   coeffVars, small_slices, simVars, emVars>>

\* the store of a += at lines 682 and 683
ThreadStore ==
    /\ pc = "scaling"
    /\ \E t \in Threads :
        /\ threads[t].item <= Len(Items(t))
        /\ threads[t].phase \in {"num_store", "den_store"}
        /\ LET it == Items(t)[threads[t].item]
           IN IF threads[t].phase = "num_store"
              THEN /\ scalenum' = threads[t].reg + NumTerm(it[1], it[2])
                   /\ scaleden' = scaleden
                   /\ threads' = [threads EXCEPT ![t].phase = "den_load"]
              ELSE /\ scaleden' = threads[t].reg + DenTerm(it[1], it[2])
                   /\ scalenum' = scalenum
                   /\ threads' = [threads EXCEPT ![t].phase = "num_load",
                                                 ![t].item = threads[t].item + 1]
    /\ pc' = pc
    /\ last' = "ThreadStore"
    /\ UNCHANGED <<orderVars, otherVars, srVars, stackVars, volumeVars, sliceVars, coeffVars,
                   small_slices, simVars, emVars>>

\* lines 689-701: the end of the parallel loop, the scale and its use
ScaleVolumeJoin ==
    /\ pc = "scaling"
    /\ \A t \in Threads : threads[t].item > Len(Items(t))
    /\ LET sc == IF scaleden > 0 THEN Div(scalenum, scaleden) ELSE 1000
       IN reconstructed' = [x \in DOMAIN reconstructed |->
                               IF reconstructed[x] > 0 THEN Mul(reconstructed[x], sc)
                               ELSE reconstructed[x]]
    /\ iter' = iter + 1
    /\ pc' = "run"
    /\ last' = "ScaleVolume"
    /\ UNCHANGED <<orderVars, otherVars, srVars, stackVars, scaleVars, template_created, have_mask, mask,
                   sliceVars, coeffVars, small_slices, simVars, weights, bias, scale,
                   slice_weight, slice_potential, min_intensity, max_intensity, robust>>

(***************************************************************************)
(* Specification SpecScale: the state after the EM initialisation and a    *)
(* simulation, then calls of ScaleVolume.                                  *)
(***************************************************************************)
SimulatedWeightChoices ==
    {[i \in Slices |-> [j \in Pixels |-> 1000]],
     [i \in Slices |-> [j \in Pixels |-> IF i = NumSlices - 1 THEN 500 ELSE 1000]]}

InitScale ==
    /\ pc = "run"
    /\ OrderIdle
    /\ OtherIdle
    /\ PartIdle
    /\ last = "SimulateSlices"
    /\ template_created = TRUE
    /\ have_mask = TRUE
    /\ reconstructed \in VolumeChoices
    /\ mask = [x \in Voxels |-> 1]
    /\ slices \in SliceArrays
    /\ transformations = [i \in Slices |-> 0]
    /\ force_excluded = EmptyArray
    /\ volcoeffs = [i \in Slices |-> ParallelCoeffInit(i)]
    /\ slice_inside = [i \in Slices |-> ParallelSliceInside(volcoeffs[i])]
    /\ volume_weights = VolumeWeights(volcoeffs, force_excluded, EmptyArray)
    /\ average_volume_weight = AverageVolumeWeight(volume_weights)
    /\ small_slices = EmptyArray
    /\ simulated_slices \in {[i \in Slices |-> [j \in Pixels |-> 0]],
                             [i \in Slices |-> [j \in Pixels |-> reconstructed[j]]]}
    /\ simulated_weights \in SimulatedWeightChoices
    /\ simulated_inside = [i \in Slices |-> [j \in Pixels |-> 1000]]
    /\ weights = [i \in Slices |-> [j \in Pixels |-> InitialWeight(slices[i][j])]]
    /\ bias = [i \in Slices |-> [j \in Pixels |-> 0]]
    /\ scale = [i \in Slices |-> 1000]
    /\ slice_weight \in SliceWeightChoices
    /\ slice_potential = EmptyArray
    /\ min_intensity = MinIntensity(slices)
    /\ max_intensity = MaxIntensity(slices)
    /\ iter = 0
    /\ robust = [sigma |-> 0, mix |-> 900, m |-> 0, sigma_s |-> 25, sigma_s2 |-> 25,
                 mix_s |-> 900, mean_s |-> 0, mean_s2 |-> 0]
    /\ params = DefaultParams
    /\ slice_dif = [i \in Slices |-> [j \in Pixels |-> 0]]
    /\ stack_index = [i \in Slices |-> i \div 2]

NextScale ==
    \/ ScaleVolumeCall
    \/ ThreadLoad
    \/ ThreadStore
    \/ ScaleVolumeJoin

SpecScale == InitScale /\ [][NextScale]_vars

\* the sums the loop gives when its iterations run one after the other
SerialNum ==
    SumOver([n \in 0..(NumSlices * NumPixels - 1) |->
                IF Scaled(n \div NumPixels, n % NumPixels)
                THEN NumTerm(n \div NumPixels, n % NumPixels) ELSE 0],
            0..(NumSlices * NumPixels - 1))

SerialDen ==
    SumOver([n \in 0..(NumSlices * NumPixels - 1) |->
                IF Scaled(n \div NumPixels, n % NumPixels)
                THEN DenTerm(n \div NumPixels, n % NumPixels) ELSE 0],
            0..(NumSlices * NumPixels - 1))

\* C8: when the parallel loop of ScaleVolume has ended, scalenum and scaleden
\* equal the serial sums, under every interleaving of the iterations.
C8_SerialSums ==
    last = "ScaleVolume" => scalenum = SerialNum /\ scaleden = SerialDen

(***************************************************************************)
(* SimulateStacks.                                                         *)
(***************************************************************************)
\* line 736 with its mutant: the simulated slice starts as a zero image, not
\* as a copy of the slice
SimCopied(i, j) == slices[i][j]

SimInitialized(i, j) == 0

\* lines 743-748: the weighted sum of the voxels under the pixel and the sum
\* of the weights
SimSum(V, i, j) ==
    SumOver([k \in DOMAIN volcoeffs[i][j] |->
                Mul(volcoeffs[i][j][k].value, V[volcoeffs[i][j][k].x])],
            DOMAIN volcoeffs[i][j])

SimWeight(i, j) ==
    SumOver([k \in DOMAIN volcoeffs[i][j] |-> volcoeffs[i][j][k].value],
            DOMAIN volcoeffs[i][j])

\* line 739 and 744: the slice is simulated and the coefficients of its pixel j
\* are read although the slice has none
ReadsMissing(i, j) ==
    slice_weight[i] > 500 /\ Active(slices[i][j]) /\ j \notin DOMAIN volcoeffs[i]

\* lines 736-753: pixel j of the simulation of slice i on the volume V; g is
\* what a read of missing coefficients leaves
SimPixel(V, i, j, g) ==
    IF slice_weight[i] > 500 /\ Active(slices[i][j])
    THEN IF j \notin DOMAIN volcoeffs[i] THEN g
         ELSE IF SimWeight(i, j) > 980
              THEN Div(SimInitialized(i, j) + SimSum(V, i, j), SimWeight(i, j))
              ELSE 0
    ELSE SimInitialized(i, j)

\* lines 756-761: the z coordinate of slice i in its stack
RECURSIVE ZOf(_)
ZOf(i) ==
    IF i = 0 THEN 0
    ELSE IF stack_index[i] = stack_index[i - 1] THEN ZOf(i - 1) + 1
    ELSE 0

\* the stacks handed to SimulateStacks: zero images on the grid of the stacks
\* the slices were created from, or with a slice for every z coordinate
\* written when no stack is kept
EmptyStacks ==
    [s \in {stack_index[i] : i \in Slices} |->
        [z \in (IF image_stacks = EmptyArray
                THEN {ZOf(i) : i \in {n \in Slices : stack_index[n] = s}}
                ELSE DOMAIN image_stacks[s]) |->
            [j \in Pixels |-> 0]]]

\* lines 763-766: every slice is written to its stack, the later slice last
SimulatedStacks(V, g, in) ==
    [s \in DOMAIN in |-> [z \in DOMAIN in[s] |-> [j \in Pixels |->
        LET writers == {i \in Slices : stack_index[i] = s /\ ZOf(i) = z}
        IN IF writers = {} THEN in[s][z][j]
           ELSE SimPixel(V, CHOOSE i \in writers : \A n \in writers : n <= i, j, g)]]]

\* lines 725-768
SimulateStacks ==
    /\ pc = "run"
    /\ Size(slice_weight) = NumSlices
    /\ Size(volcoeffs) = NumSlices
    /\ LET ub == \E i \in Slices, j \in Pixels : ReadsMissing(i, j)
       IN \/ /\ \E g \in (IF ub THEN GarbageValues ELSE {0}) :
                  sim_stacks' = SimulatedStacks(reconstructed, g, EmptyStacks)
             /\ pc' = pc
          \/ /\ ub
             /\ pc' = "crashed"
             /\ UNCHANGED sim_stacks
    /\ last' = "SimulateStacks"
    /\ UNCHANGED <<orderVars, otherVars, srVars, scaleVars, stack_index, volumeVars, sliceVars, coeffVars,
                   small_slices, simVars, emVars>>

(***************************************************************************)
(* Specification SpecSim: the state after CoeffInit and the EM             *)
(* initialisation, then SimulateStacks.                                    *)
(***************************************************************************)
SimPoseArrays ==
    PoseArrays \cup {[i \in Slices |-> IF i = 0 THEN 3 ELSE 1]}

\* the state after CoeffInit and the EM initialisation, but for the layout
\* of the slices in their stacks
SimState ==
    /\ pc = "run"
    /\ OrderIdle
    /\ PartIdle
    /\ last = "InitializeEMValues"
    /\ template_created = TRUE
    /\ have_mask = TRUE
    /\ reconstructed \in VolumeChoices
    /\ mask = [x \in Voxels |-> 1]
    /\ slices \in SliceArrays
    /\ transformations \in SimPoseArrays
    /\ force_excluded \in {EmptyArray, SetToArray({0}), SetToArray({1})}
    /\ volcoeffs = [i \in Slices |-> ParallelCoeffInit(i)]
    /\ slice_inside = [i \in Slices |-> ParallelSliceInside(volcoeffs[i])]
    /\ volume_weights = VolumeWeights(volcoeffs, force_excluded, EmptyArray)
    /\ average_volume_weight = AverageVolumeWeight(volume_weights)
    /\ small_slices = EmptyArray
    /\ simulated_slices = [i \in Slices |-> [j \in Pixels |-> 0]]
    /\ simulated_weights = [i \in Slices |-> [j \in Pixels |-> 1000]]
    /\ simulated_inside = [i \in Slices |-> [j \in Pixels |-> 1000]]
    /\ weights = [i \in Slices |-> [j \in Pixels |-> InitialWeight(slices[i][j])]]
    /\ bias = [i \in Slices |-> [j \in Pixels |-> 0]]
    /\ scale = [i \in Slices |-> 1000]
    /\ \E low \in {NumSlices - 1, NumSlices} :
        slice_weight = [i \in Slices |->
                           IF i \in ForcedEntries(force_excluded) THEN 0
                           ELSE IF i = low THEN 400 ELSE 1000]
    /\ slice_potential = EmptyArray
    /\ min_intensity = MinIntensity(slices)
    /\ max_intensity = MaxIntensity(slices)
    /\ iter = 0
    /\ robust = [sigma |-> 0, mix |-> 900, m |-> 0, sigma_s |-> 25, sigma_s2 |-> 25,
                 mix_s |-> 900, mean_s |-> 0, mean_s2 |-> 0]
    /\ params = DefaultParams
    /\ slice_dif = [i \in Slices |-> [j \in Pixels |-> 0]]

InitSim ==
    /\ OtherIdle
    /\ stack_index = [i \in Slices |-> i \div 2]
    /\ SimState

NextSim == SimulateStacks

SpecSim == InitSim /\ [][NextSim]_vars

\* the factors the volume is multiplied by
Factors == {0, 500, 2000, 3000}

ScaledVolume(c) == [x \in Voxels |-> Mul(c, reconstructed[x])]

TemplateImages == VolumeChoices

MaskImages == {[x \in Voxels |-> 1], [x \in Voxels |-> IF x = 0 THEN 1 ELSE 0]}

\* the resampling of an image to the grid of the volume with the identity
\* transformation; a voxel the image does not cover becomes 0
Resampled(image, grid) == [x \in DOMAIN grid |-> IF x \in DOMAIN image THEN image[x] ELSE 0]

\* lines 234-303: the volume is the stack resampled to the resolution
CreateTemplate ==
    /\ pc = "run"
    /\ reconstructed' \in TemplateImages
    /\ template_created' = TRUE
    /\ last' = "CreateTemplate"
    /\ pc' = pc
    /\ UNCHANGED <<orderVars, otherVars, partVars, have_mask, mask, sliceVars, coeffVars, small_slices,
                   simVars, emVars>>

\* lines 308-326: the volume is a zero image with the attributes of the stack
CreateTemplateAniso ==
    /\ pc = "run"
    /\ reconstructed' = [x \in Voxels |-> 0]
    /\ template_created' = TRUE
    /\ last' = "CreateTemplateAniso"
    /\ pc' = pc
    /\ UNCHANGED <<orderVars, otherVars, partVars, have_mask, mask, sliceVars, coeffVars, small_slices,
                   simVars, emVars>>

\* lines 331-348: no test of _template_created
SetTemplate ==
    /\ pc = "run"
    /\ \E t \in TemplateImages : reconstructed' = Resampled(t, reconstructed)
    /\ last' = "SetTemplate"
    /\ pc' = pc
    /\ UNCHANGED <<orderVars, otherVars, partVars, template_created, have_mask, mask, sliceVars,
                   coeffVars, small_slices, simVars, emVars>>

\* lines 407-467; given is FALSE for a NULL mask
SetMask ==
    /\ pc = "run"
    /\ last' = "SetMask"
    /\ IF ~template_created
       THEN /\ pc' = "fatal"
            /\ UNCHANGED <<have_mask, mask>>
       ELSE /\ \E given \in BOOLEAN, m \in MaskImages :
                mask' = IF given THEN Resampled(m, reconstructed)
                        ELSE [x \in DOMAIN reconstructed |-> 1]
            /\ have_mask' = TRUE
            /\ pc' = pc
    /\ UNCHANGED <<orderVars, otherVars, partVars, template_created, reconstructed, sliceVars, coeffVars,
                   small_slices, simVars, emVars>>

\* lines 212-229: the average is returned, the object is left as it was
CreateAverage ==
    /\ pc = "run"
    /\ last' = "CreateAverage"
    /\ pc' = IF ~template_created THEN "fatal" ELSE pc
    /\ UNCHANGED <<orderVars, otherVars, partVars, volumeVars, sliceVars, coeffVars, small_slices,
                   simVars, emVars>>

\* lines 1581-1637: the volume and the mask are read, n slices are appended
LoadModelRemote ==
    /\ pc = "run"
    /\ reconstructed' \in TemplateImages
    /\ mask' \in MaskImages
    /\ template_created' = TRUE
    /\ have_mask' = TRUE
    /\ \E n \in {0, NumSlices} :
        /\ Size(slices) + n <= NumSlices
        /\ IF n = 0
           THEN UNCHANGED <<slices, transformations, slice_dif, simulated_slices,
                            simulated_weights, simulated_inside, stack_index,
                            reg_slice_weight, slice_pos, package_index>>
           ELSE /\ slices' \in SliceArrays
                /\ transformations' \in PoseArrays
                /\ slice_dif' = [i \in Slices |-> [j \in Pixels |-> 0]]
                /\ simulated_slices' = [i \in Slices |-> [j \in Pixels |-> 0]]
                /\ simulated_weights' = [i \in Slices |-> [j \in Pixels |-> 1000]]
                /\ simulated_inside' = [i \in Slices |-> [j \in Pixels |-> 1000]]
                /\ stack_index' = [i \in Slices |-> 0]
                /\ reg_slice_weight' = [i \in Slices |-> 1000]
                /\ slice_pos' = [i \in Slices |-> i]
                /\ package_index' = [i \in Slices |-> 0]
    /\ last' = "LoadModelRemote"
    /\ pc' = pc
    /\ UNCHANGED <<orderVars, matchVars, phaseVars, packVars, remoteVars, tailVars, computed_ncc,
                   excluded_entirely, n_packages, stack_transformations, params, confidence_map, scaleVars, sim_stacks, force_excluded,
                   coeffVars, small_slices, emVars>>

(***************************************************************************)
(* Specification SpecTemplate: the constructed object, then the template,  *)
(* mask and coefficient operations in any order.                           *)
(***************************************************************************)
InitTemplate ==
    /\ pc = "run"
    /\ OrderIdle
    /\ ReconIdle
    /\ OtherIdle

NextTemplate ==
    \/ CreateTemplate
    \/ CreateTemplateAniso
    \/ LoadModelRemote
    \/ SetMask
    \/ CreateAverage
    \/ SetTemplate
    \/ CoeffInit

SpecTemplate == InitTemplate /\ [][NextTemplate]_vars

\* the operations that need the geometry of the volume
GeometryOperations == {"SetMask", "CreateAverage", "SetTemplate", "CoeffInit"}

\* C10: an operation that needs the geometry of the volume, called while
\* template_created is false, ends in the fatal state and changes neither
\* the volume nor the mask nor the slices.
C10_Fatal ==
    [][(~template_created /\ last' \in GeometryOperations)
           => (pc' = "fatal" /\ UNCHANGED <<reconstructed, mask, slices>>)]_vars

(***************************************************************************)
(* Specification SpecMatch: the intensity matching of the stacks, the      *)
(* creation of the slices from the matched stacks and the restoration of   *)
(* the slice intensities.  Intensities are exact fractions <<n, d>> here,  *)
(* d = 0 standing for an infinity (n # 0) or a NaN (n = 0), so that a      *)
(* multiplication followed by the division by the same factor is the       *)
(* identity exactly when it is one on the reals.                           *)
(***************************************************************************)
MatchStacks == 0..(NumStacks - 1)

Rat(n) == <<n, 1>>

RatNorm(a) == IF a[2] < 0 THEN <<0 - a[1], 0 - a[2]>> ELSE a

RatAdd(a, b) == RatNorm(<<a[1] * b[2] + b[1] * a[2], a[2] * b[2]>>)

RatMul(a, b) == RatNorm(<<a[1] * b[1], a[2] * b[2]>>)

RatDiv(a, b) == RatNorm(<<a[1] * b[2], a[2] * b[1]>>)

\* the comparison a > 0 of the source: true of +infinity, false of a NaN
RatPositive(a) == a[1] > 0 /\ a[2] >= 0

\* a and b are the same finite number
RatEqual(a, b) == a[2] # 0 /\ b[2] # 0 /\ a[1] * b[2] = b[1] * a[2]

RECURSIVE RatSum(_, _)
RatSum(f, S) ==
    IF S = {} THEN Rat(0)
    ELSE LET x == CHOOSE y \in S : TRUE
         IN RatAdd(f[x], RatSum(f, S \ {x}))

\* the intensities a stack voxel starts with: padding, zero and two values
VoxelChoices == {Rat(0 - 1), Rat(0), Rat(2), Rat(4)}

\* the voxels of a stack that map into the mask ROI: none, the first pixel
\* of every z position, or all
RoiChoices ==
    {[z \in 0..(StackZ - 1) |-> [j \in Pixels |-> FALSE]],
     [z \in 0..(StackZ - 1) |-> [j \in Pixels |-> j = 0]],
     [z \in 0..(StackZ - 1) |-> [j \in Pixels |-> TRUE]]}

\* the target averages handed to the matching
MatchAverages == {2, 6}

\* the voxels of a stack, as pairs <<z, pixel>>
StackVoxels(stack) == {<<z, j>> : z \in DOMAIN stack, j \in Pixels}

\* lines 784-808: the voxels MatchStackIntensities averages
PositiveVoxels(st, ind) ==
    {v \in StackVoxels(st[ind]) : RatPositive(st[ind][v[1]][v[2]])}

\* lines 971-996: the voxels MatchStackIntensitiesWithMasking averages
RoiVoxels(st, ind) ==
    {v \in StackVoxels(st[ind]) : stack_roi[ind][v[1]][v[2]]}

\* sum / num of one stack over the set of voxels taken
StackAverage(st, ind, taken) ==
    RatDiv(RatSum([v \in taken |-> st[ind][v[1]][v[2]]], taken), Rat(Cardinality(taken)))

\* lines 816-821, 831-835 and 1012-1017, 1025-1029: the factor of every stack
StackFactors(stack_average, averageValue, together) ==
    LET global_average == RatDiv(RatSum(stack_average, DOMAIN stack_average),
                                 Rat(Size(stack_average)))
    IN [ind \in DOMAIN stack_average |->
           RatDiv(Rat(averageValue),
                  IF together THEN global_average ELSE stack_average[ind])]

\* lines 837-841: every positive voxel is multiplied by the factor of its stack
Rescaled(st, factor) ==
    [ind \in DOMAIN st |-> [z \in DOMAIN st[ind] |-> [j \in Pixels |->
        IF RatPositive(st[ind][z][j]) THEN RatMul(st[ind][z][j], factor[ind])
        ELSE st[ind][z][j]]]]

\* the body the two matching functions share; taken[ind] is the set of
\* voxels of stack ind whose intensities are averaged
Match(name, averageValue, together, taken) ==
    LET missing == {ind \in DOMAIN image_stacks : taken[ind] = {}}
        stack_average == [ind \in DOMAIN image_stacks |->
                             StackAverage(image_stacks, ind, taken[ind])]
        factor == StackFactors(stack_average, averageValue, together)
    IN /\ pc = "run"
       /\ last = "none"
       /\ last' = name
       /\ average_value' = averageValue
       /\ IF missing # {}
          THEN /\ pc' = "fatal"
               /\ cerr_stack' = CHOOSE ind \in missing : \A other \in missing : ind <= other
               /\ UNCHANGED <<image_stacks, stack_factor>>
          ELSE /\ stack_factor' = factor
               /\ image_stacks' = Rescaled(image_stacks, factor)
               /\ UNCHANGED <<pc, cerr_stack>>
       /\ UNCHANGED <<stack_roi, original_stacks, nccVars, phaseVars, laterVars, packVars>>
       /\ UNCHANGED <<orderVars, partVars, volumeVars, sliceVars, coeffVars, small_slices,
                      simVars, emVars>>

\* lines 773-842
MatchStackIntensities ==
    \E averageValue \in MatchAverages, together \in BOOLEAN :
        LET taken == [ind \in DOMAIN image_stacks |-> PositiveVoxels(image_stacks, ind)]
        IN Match("MatchStackIntensities", averageValue, together, taken)

\* lines 956-1036
MatchStackIntensitiesWithMasking ==
    \E averageValue \in MatchAverages, together \in BOOLEAN :
        LET taken == [ind \in DOMAIN image_stacks |-> RoiVoxels(image_stacks, ind)]
        IN Match("MatchStackIntensitiesWithMasking", averageValue, together, taken)

\* SteppedPackage without the return to package 0
SteppedPackageOn(current_package, i) ==
    IF n_packages # EmptyArray THEN current_package + 1 ELSE 0

\* lines 1091-1097: the package of the next position of stack i
SteppedPackage(current_package, i) ==
    IF n_packages # EmptyArray
    THEN (IF current_package + 1 > n_packages[i] - 1 THEN 0 ELSE current_package + 1)
    ELSE 0

\* lines 1082-1157: the loops over the stacks and their positions; i is the
\* stack, j the position, current_package the local of that name, made the
\* slices pushed so far
RECURSIVE CreateLoop(_, _, _, _, _)
CreateLoop(st, i, j, current_package, made) ==
    IF i >= Size(st) THEN made
    ELSE IF j >= Size(st[i]) THEN CreateLoop(st, i + 1, 0, 0 - 1, made)
    ELSE LET package == SteppedPackage(current_package, i)
         IN IF Listed(excluded_entirely, j)
            THEN CreateLoop(st, i, j + 1, package, made)
            ELSE CreateLoop(st, i, j + 1, package,
                            Append(made, [stack |-> i, pos |-> j, package |-> package]))

\* lines 1058-1160: one slice per position of every stack that is not
\* excluded entirely, in stack order.  The stacks are matched first when a
\* ROI was handed over with them.
CreateSlicesAndTransformations ==
    LET made == CreateLoop(image_stacks, 0, 0, 0 - 1, <<>>)
        created == 0..(Len(made) - 1)
        blank(v) == [n \in created |-> [p \in Pixels |-> v]]
    IN /\ pc = "run"
       /\ image_stacks # EmptyArray
       /\ \/ last \in {"MatchStackIntensities", "MatchStackIntensitiesWithMasking"}
          \/ stack_roi = EmptyArray
       /\ last' = "CreateSlicesAndTransformations"
       /\ slices' = [n \in created |-> image_stacks[made[n + 1].stack][made[n + 1].pos]]
       /\ package_index' = [n \in created |-> made[n + 1].package]
       /\ slice_pos' = [n \in created |-> made[n + 1].pos]
       /\ stack_index' = [n \in created |-> made[n + 1].stack]
       /\ transformations' = [n \in created |-> stack_transformations[made[n + 1].stack]]
       /\ slice_dif' = blank(0)
       /\ simulated_slices' = blank(0)
       /\ simulated_weights' = blank(1000)
       /\ simulated_inside' = blank(1000)
       /\ reg_slice_weight' = [n \in created |-> 1000]
       /\ UNCHANGED <<pc, orderVars, matchVars, phaseVars, packVars, remoteVars, tailVars, computed_ncc,
                      excluded_entirely, n_packages, stack_transformations, volumeVars,
                      force_excluded, coeffVars, small_slices, emVars, params, confidence_map,
                      scaleVars, sim_stacks>>

\* lines 646-658
RestoreSliceIntensities ==
    /\ pc = "run"
    /\ last = "CreateSlicesAndTransformations"
    /\ last' = "RestoreSliceIntensities"
    /\ slices' = [i \in DOMAIN slices |-> [j \in Pixels |->
                     IF RatPositive(slices[i][j])
                     THEN RatDiv(slices[i][j], stack_factor[stack_index[i]])
                     ELSE slices[i][j]]]
    /\ UNCHANGED <<pc, orderVars, otherVars, partVars, volumeVars, transformations,
                   force_excluded, coeffVars, small_slices, simVars, emVars>>

InitMatch ==
    /\ pc = "run"
    /\ OrderIdle
    /\ ReconIdle
    /\ image_stacks \in [MatchStacks -> [0..(StackZ - 1) -> [Pixels -> VoxelChoices]]]
    /\ stack_roi \in [MatchStacks -> RoiChoices]
    /\ original_stacks = image_stacks
    /\ stack_factor = EmptyArray
    /\ average_value = 0
    /\ cerr_stack = -1
    /\ NccIdle
    /\ PhaseIdle
    /\ RemoteIdle
    /\ TailIdle
    /\ slice_pos = EmptyArray
    /\ package_index = EmptyArray
    /\ excluded_entirely = EmptyArray
    /\ n_packages = EmptyArray
    /\ stack_transformations = [ind \in MatchStacks |-> 0]
    /\ PackIdle

NextMatch ==
    \/ MatchStackIntensities
    \/ MatchStackIntensitiesWithMasking
    \/ CreateSlicesAndTransformations
    \/ RestoreSliceIntensities

SpecMatch == InitMatch /\ [][NextMatch]_vars

\* the stacks none of whose voxels maps into the mask ROI
StacksOutsideRoi ==
    {k \in DOMAIN stack_roi : \A v \in StackVoxels(stack_roi[k]) : ~stack_roi[k][v[1]][v[2]]}

\* C11: once either matching has run on stacks one of which has no voxel
\* inside the mask ROI, the run has ended fatally, cerr names such a stack,
\* no stack voxel was rescaled and _stack_factor is as it was.
C11_FatalNoRoi ==
    (last # "none" /\ StacksOutsideRoi # {})
        => /\ pc = "fatal"
           /\ cerr_stack \in StacksOutsideRoi
           /\ image_stacks = original_stacks
           /\ stack_factor = EmptyArray

\* C20: after matching, slice creation and RestoreSliceIntensities every
\* slice pixel that was positive before the matching has its value of before
\* the matching again, and every other pixel never changed.
C20_Restored ==
    last = "RestoreSliceIntensities"
        => \A i \in DOMAIN slices : \A j \in Pixels :
               LET before == original_stacks[stack_index[i]][i % StackZ][j]
               IN IF RatPositive(before) THEN RatEqual(slices[i][j], before)
                  ELSE slices[i][j] = before

(***************************************************************************)
(* Specification SpecEM: the robust statistics of one reconstruction, from *)
(* the state InitializeEM and InitializeEMValues leave: Scale, EStep and   *)
(* MStep in any order, with the initialisations repeated at will.          *)
(***************************************************************************)
\* the scales Parallel::Scale may leave: all one, one slice below 0.2 and
\* one above 5, or two slices on the limits 0.2 and 5
ScaleArrays ==
    {[i \in Slices |-> 1000],
     [i \in Slices |-> IF i = 0 THEN 100 ELSE IF i = 1 THEN 6000 ELSE 1000],
     [i \in Slices |-> IF i = 0 THEN 200 ELSE IF i = 1 THEN 5000 ELSE 1000]}

\* lines 2284-2299
Scale ==
    /\ pc = "run"
    /\ Size(scale) = NumSlices
    /\ scale' \in ScaleArrays
    /\ last' = "Scale"
    /\ UNCHANGED <<pc, orderVars, otherVars, partVars, volumeVars, sliceVars, coeffVars,
                   small_slices, simVars, weights, bias, slice_weight, slice_potential,
                   min_intensity, max_intensity, robust, iter>>

\* the sums Parallel::MStep returns: over the pixels with a slice value above
\* -0.01 and a simulated weight above 0.99, the weighted squared error, the
\* weights, the number of pixels and the extreme errors
ParallelMStep ==
    LET valid == {p \in Slices \X Pixels : /\ Active(slices[p[1]][p[2]])
                                           /\ simulated_weights[p[1]][p[2]] > 990}
        e == [p \in valid |->
                 Mul(slices[p[1]][p[2]], scale[p[1]]) - simulated_slices[p[1]][p[2]]]
        w == [p \in valid |-> weights[p[1]][p[2]]]
    IN [sigma |-> SumOver([p \in valid |-> Mul(Mul(e[p], e[p]), w[p])], valid),
        mix   |-> SumOver(w, valid),
        num   |-> Cardinality(valid),
        min   |-> IF valid = {} THEN 0
                  ELSE CHOOSE v \in {e[p] : p \in valid} : \A p \in valid : v <= e[p],
        max   |-> IF valid = {} THEN 0
                  ELSE CHOOSE v \in {e[p] : p \in valid} : \A p \in valid : v >= e[p]]

\* MixAfter without the test of the iteration
MixAfterAlways(par, old) == par.mix \div par.num

\* lines 2411-2412: _mix after MStep(iter)
MixAfter(par, old) == IF iter > 1 THEN par.mix \div par.num ELSE old

\* lines 2393-2419; 1 / (max - min) with max = min is an infinity, kept as -1
MStep ==
    LET par == ParallelMStep
    IN /\ pc = "run"
       /\ Size(weights) = NumSlices
       /\ last' = "MStep"
       /\ IF par.mix > 0
          THEN /\ robust' = [robust EXCEPT
                                !.sigma = Max(Div(par.sigma, par.mix), 1),
                                !.mix = MixAfter(par, @),
                                !.m = IF par.max = par.min THEN -1
                                      ELSE Div(1000, par.max - par.min)]
               /\ pc' = pc
          ELSE /\ pc' = "fatal"
               /\ robust' = robust
       /\ UNCHANGED <<orderVars, otherVars, partVars, volumeVars, sliceVars, coeffVars,
                      small_slices, simVars, weights, bias, scale, slice_weight,
                      slice_potential, min_intensity, max_intensity, iter>>

\* the slices of the run: those of SliceArrays, or slices of padding only
EMSliceArrays == SliceArrays \cup {[i \in Slices |-> [j \in Pixels |-> -1000]]}

\* the state before the EM steps of iteration iter of the caller, for the
\* iterations of the set given
InitEMFrom(iterations) ==
    /\ pc = "run"
    /\ OrderIdle
    /\ OtherIdle
    /\ PartIdle
    /\ last = "InitializeEMValues"
    /\ template_created = TRUE
    /\ have_mask = TRUE
    /\ reconstructed = [x \in Voxels |-> 0]
    /\ mask = [x \in Voxels |-> 1]
    /\ slices \in EMSliceArrays
    /\ transformations = [i \in Slices |-> 0]
    /\ force_excluded \in {EmptyArray, SetToArray({1})}
    /\ volcoeffs = EmptyArray
    /\ slice_inside = [i \in Slices |-> TRUE]
    /\ volume_weights = EmptyArray
    /\ average_volume_weight = 0
    /\ small_slices = EmptyArray
    /\ simulated_slices = [i \in Slices |-> [j \in Pixels |-> 0]]
    /\ simulated_weights \in {[i \in Slices |-> [j \in Pixels |-> 1000]],
                              [i \in Slices |-> [j \in Pixels |-> 0]]}
    /\ simulated_inside = [i \in Slices |-> [j \in Pixels |-> 1000]]
    /\ weights = [i \in Slices |-> [j \in Pixels |-> InitialWeight(slices[i][j])]]
    /\ bias = [i \in Slices |-> [j \in Pixels |-> 0]]
    /\ scale = [i \in Slices |-> 1000]
    /\ slice_weight = [i \in Slices |-> IF i \in ForcedEntries(force_excluded) THEN 0
                                        ELSE 1000]
    /\ slice_potential = EmptyArray
    /\ min_intensity = MinIntensity(slices)
    /\ max_intensity = MaxIntensity(slices)
    /\ iter \in iterations
    /\ robust = [sigma |-> 0, mix |-> 900, m |-> 0, sigma_s |-> 25, sigma_s2 |-> 25,
                 mix_s |-> 900, mean_s |-> 0, mean_s2 |-> 0]
    /\ params = DefaultParams
    /\ slice_dif = [i \in Slices |-> [j \in Pixels |-> 0]]
    /\ stack_index = [i \in Slices |-> i \div 2]

InitEM == InitEMFrom({0})

NextEM ==
    \/ InitializeEMValues
    \/ InitializeRobustStatistics
    \/ Scale
    \/ EStep
    \/ MStep

SpecEM == InitEM /\ [][NextEM]_vars

\* the EM steps of the first iteration and of a later one
SpecMStep == InitEMFrom({0, MaxIter}) /\ [][NextEM]_vars

\* C26 as stated: after every MStep(iter), for every iter >= 0, _mix is the
\* sum of the voxel weights divided by the number of valid voxels of that
\* step, and _sigma is at least the lower bound of the clamp.
C26_Original ==
    (last = "MStep" /\ pc = "run") =>
        /\ robust.mix = ParallelMStep.mix \div ParallelMStep.num
        /\ robust.sigma >= 1

\* C26: every MStep(iter) that returns leaves _sigma at or above the lower
\* bound of the clamp; for iter > 1 it leaves _mix at the sum of the voxel
\* weights divided by the number of valid voxels, for iter <= 1 it leaves
\* _mix as it was.
C26_Mix ==
    [][(last' = "MStep" /\ pc' = "run") =>
          /\ robust'.sigma >= 1
          /\ IF iter > 1
             THEN robust'.mix = ParallelMStep.mix \div ParallelMStep.num
             ELSE robust'.mix = robust.mix]_vars

\* an MStep of a later iteration has replaced the initial _mix of 0.9
C26_Witness ==
    /\ last = "MStep"
    /\ pc = "run"
    /\ iter > 1
    /\ robust.mix = 1000
    /\ robust.sigma > 1

\* the slices with a valid potential in the last EStep (lines 2157, 2254)
ValidSlices == {i \in DOMAIN slice_potential : slice_potential[i] >= 0}

\* C12: no degeneracy of the EM steps ends the run: the run goes on after
\* every MStep, and after an EStep in which no slice has a valid potential
\* the run goes on with sigma_s = 0.025 and mix_s = 0.9.
\* the part of C12 about EStep alone
EStepFallback ==
    (last = "EStep" /\ ValidSlices = {})
        => (pc = "run" /\ robust.sigma_s = 25 /\ robust.mix_s = 900)

C12_Degeneracy ==
    /\ last = "MStep" => pc = "run"
    /\ EStepFallback

\* the slices of unrealistic scale
Misscaled == {i \in DOMAIN scale : scale[i] < 200 \/ scale[i] > 5000}

\* C13: an EStep gives every slice whose scale is below 0.2 or above 5 the
\* weight 0, and the mixture parameters it computes are the same whatever
\* potential Parallel::EStep returned for such a slice.
C13_Misscaled ==
    [][(last' = "EStep" /\ iter' = iter + 1)
          => \A i \in Misscaled :
                /\ slice_weight'[i] = 0
                /\ \A parallel \in PotentialArrays : \A v \in {0, 100, 5000} :
                       EStepOutcome([parallel EXCEPT ![i] = v]).robust
                           = EStepOutcome(parallel).robust]_vars

\* an EStep ran with a slice of scale above 5 that is on no exclusion list,
\* next to a slice that kept a positive weight
C13_Witness ==
    /\ last = "EStep"
    /\ \E i \in Misscaled : /\ scale[i] > 5000
                            /\ i \notin ForcedEntries(force_excluded)
                            /\ slice_weight[i] = 0
    /\ \E k \in DOMAIN slice_weight : slice_weight[k] > 0

\* C14: whatever InitializeEMValues, InitializeRobustStatistics and EStep
\* calls were made, every slice weight and the slice mixing proportion lie
\* between 0 and 1.
C14_WeightRange ==
    /\ \A i \in DOMAIN slice_weight : slice_weight[i] >= 0 /\ slice_weight[i] <= 1000
    /\ robust.mix_s >= 0 /\ robust.mix_s <= 1000

\* an EStep gave a slice a weight strictly between 0 and 1
C14_Witness ==
    /\ last = "EStep"
    /\ \E i \in DOMAIN slice_weight : slice_weight[i] > 0 /\ slice_weight[i] < 1000
    /\ robust.mix_s > 0 /\ robust.mix_s < 1000

(***************************************************************************)
(* Specification SpecExclusion: StructuralExclusion on the slices of a     *)
(* run.  The images handed to ComputeNCC come out of library filters, so   *)
(* the model takes the value ComputeNCC returns for a slice as an input.   *)
(***************************************************************************)
\* line 148
global_NCC_threshold == 650

\* lines 3815-3838: ComputeNCC returns -1 with fewer than 5 common pixels, 0
\* when one image is constant, and a correlation otherwise
NccValues == {-1000, 0, 649, 650, 651, 1000}

\* a gating weight that lets a slice pass whose NCC equals the threshold
RegSliceWeightInclusive(output_ncc) ==
    IF output_ncc >= global_NCC_threshold THEN 1000 ELSE -1000

\* lines 1384-1390
RegSliceWeight(output_ncc) ==
    IF output_ncc > global_NCC_threshold THEN 1000 ELSE -1000

\* lines 1377-1380: a returned -1 counts as 1
OutputNcc(ncc) == IF ncc = -1000 THEN 1000 ELSE ncc

\* lines 1322-1399
StructuralExclusion ==
    /\ pc = "run"
    /\ last # "StructuralExclusion"
    /\ \E ncc \in [Slices -> NccValues] :
        /\ computed_ncc' = ncc
        /\ reg_slice_weight' = [i \in Slices |-> RegSliceWeight(OutputNcc(ncc[i]))]
    /\ last' = "StructuralExclusion"
    /\ UNCHANGED <<pc, orderVars, matchVars, phaseVars, laterVars, packVars, partVars, volumeVars,
                   sliceVars, coeffVars, small_slices, simVars, emVars>>

InitExclusion ==
    /\ pc = "run"
    /\ OrderIdle
    /\ MatchIdle
    /\ PhaseIdle
    /\ LaterIdle
    /\ PackIdle
    /\ PartIdle
    /\ last = "CreateSlicesAndTransformations"
    /\ template_created = TRUE
    /\ have_mask = TRUE
    /\ reconstructed = [x \in Voxels |-> 1000]
    /\ mask = [x \in Voxels |-> 1]
    /\ slices \in SliceArrays
    /\ transformations = [i \in Slices |-> 0]
    /\ force_excluded = EmptyArray
    /\ volcoeffs = EmptyArray
    /\ slice_inside = EmptyArray
    /\ volume_weights = EmptyArray
    /\ average_volume_weight = 0
    /\ small_slices = EmptyArray
    /\ simulated_slices = [i \in Slices |-> [j \in Pixels |-> 0]]
    /\ simulated_weights = [i \in Slices |-> [j \in Pixels |-> 1000]]
    /\ simulated_inside = [i \in Slices |-> [j \in Pixels |-> 1000]]
    /\ weights = EmptyArray
    /\ bias = EmptyArray
    /\ scale = EmptyArray
    /\ slice_weight = EmptyArray
    /\ slice_potential = EmptyArray
    /\ min_intensity = 0
    /\ max_intensity = 0
    /\ iter = 0
    /\ robust = [sigma |-> 0, mix |-> 900, m |-> 0, sigma_s |-> 25, sigma_s2 |-> 25,
                 mix_s |-> 900, mean_s |-> 0, mean_s2 |-> 0]
    /\ params = DefaultParams
    /\ slice_dif = [i \in Slices |-> [j \in Pixels |-> 0]]
    /\ stack_index = [i \in Slices |-> i \div 2]
    /\ reg_slice_weight = [i \in Slices |-> 1000]
    /\ computed_ncc = EmptyArray

NextExclusion == StructuralExclusion

SpecExclusion == InitExclusion /\ [][NextExclusion]_vars

\* C15 as stated: after StructuralExclusion R_i is -1 exactly when the NCC
\* computed for slice i is below the threshold, and R_i is -1 or +1.
C15_Original ==
    last = "StructuralExclusion"
        => \A i \in Slices :
               /\ reg_slice_weight[i] \in {-1000, 1000}
               /\ (reg_slice_weight[i] = -1000 <=> computed_ncc[i] < global_NCC_threshold)

\* C15 amended: after StructuralExclusion R_i is +1 exactly when the NCC of
\* slice i, a returned -1 counted as 1, is strictly above the threshold; it
\* is -1 otherwise, an NCC equal to the threshold included.
C15_Gating ==
    last = "StructuralExclusion"
        => \A i \in Slices :
               /\ reg_slice_weight[i] \in {-1000, 1000}
               /\ (reg_slice_weight[i] = 1000
                      <=> (computed_ncc[i] = -1000 \/ computed_ncc[i] > global_NCC_threshold))

\* StructuralExclusion met an NCC equal to the threshold and a returned -1
C15_Witness ==
    /\ last = "StructuralExclusion"
    /\ \E i \in Slices : computed_ncc[i] = global_NCC_threshold
                            /\ reg_slice_weight[i] = -1000
    /\ \E i \in Slices : computed_ncc[i] = -1000 /\ reg_slice_weight[i] = 1000

(***************************************************************************)
(* Specification SpecPhases: Superresolution statement by statement.  The  *)
(* log keeps, for every phase of the call in progress, the volume it was   *)
(* handed: the volume at entry, the updated volume, and the image original *)
(* passed to AdaptiveRegularization and to BiasCorrectVolume.              *)
(***************************************************************************)
\* the image handed on as original when the updated volume is handed on
UpdatedPassed(original, updated) == updated

\* lines 2338, 2382 and 2386: both calls are handed the copy made at entry
OriginalPassed(original, updated) == original

PhaseFrame ==
    UNCHANGED <<orderVars, matchVars, nccVars, packVars, laterVars, scaleVars, stackVars, params, template_created,
                have_mask, mask, sliceVars, coeffVars, small_slices, simVars, weights, bias,
                scale, slice_weight, slice_potential, min_intensity, max_intensity, robust>>

\* lines 2334-2338
SuperresolutionEntry ==
    /\ pc = "run"
    /\ sr_pc = "idle"
    /\ Size(slice_weight) = NumSlices
    /\ Size(volcoeffs) = NumSlices
    /\ iter < MaxIter
    /\ sr_original' = reconstructed
    /\ sr_log' = <<<<"entry", reconstructed>>>>
    /\ sr_pc' = "SliceDifference"
    /\ UNCHANGED <<pc, last, iter, reconstructed, slice_dif, confidence_map, sr_addon>>
    /\ PhaseFrame

\* line 2340
SuperresolutionDifference ==
    /\ sr_pc = "SliceDifference"
    /\ slice_dif' = SliceDifference
    /\ sr_log' = Append(sr_log, <<"SliceDifference", reconstructed>>)
    /\ sr_pc' = "addon"
    /\ UNCHANGED <<pc, last, iter, reconstructed, confidence_map, sr_original, sr_addon>>
    /\ PhaseFrame

\* lines 2342-2366
SuperresolutionAddon ==
    /\ sr_pc = "addon"
    /\ sr_addon' = NormalisedAddon(ParallelAddon(slice_dif), ParallelConfidence)
    /\ confidence_map' = NormalisedConfidence(ParallelConfidence)
    /\ sr_log' = Append(sr_log, <<"addon", reconstructed>>)
    /\ sr_pc' = "update"
    /\ UNCHANGED <<pc, last, iter, reconstructed, slice_dif, sr_original>>
    /\ PhaseFrame

\* lines 2368-2379
SuperresolutionUpdate ==
    /\ sr_pc = "update"
    /\ reconstructed' = Updated(reconstructed, sr_addon)
    /\ sr_log' = Append(sr_log, <<"update", reconstructed'>>)
    /\ sr_pc' = "AdaptiveRegularization"
    /\ UNCHANGED <<pc, last, iter, slice_dif, confidence_map, sr_original, sr_addon>>
    /\ PhaseFrame

\* lines 2381-2382
SuperresolutionRegularization ==
    LET original == OriginalPassed(sr_original, reconstructed)
    IN /\ sr_pc = "AdaptiveRegularization"
       /\ reconstructed' = AdaptiveRegularization(original, reconstructed, confidence_map)
       /\ sr_log' = Append(sr_log, <<"AdaptiveRegularization", original>>)
       /\ sr_pc' = "BiasCorrectVolume"
       /\ UNCHANGED <<pc, last, iter, slice_dif, confidence_map, sr_original, sr_addon>>
       /\ PhaseFrame

\* lines 2384-2389
SuperresolutionBias ==
    LET original == OriginalPassed(sr_original, reconstructed)
        V == IF params.global_bias_correction THEN BiasCorrectVolume(original, reconstructed)
             ELSE reconstructed
    IN /\ sr_pc = "BiasCorrectVolume"
       /\ reconstructed' = V
       /\ sr_log' = IF params.global_bias_correction
                    THEN Append(sr_log, <<"BiasCorrectVolume", original>>)
                    ELSE sr_log
       /\ sr_pc' = "idle"
       /\ pc' = IF \E x \in Voxels : V[x] = NotANumber THEN "nan" ELSE pc
       /\ iter' = iter + 1
       /\ last' = "Superresolution"
       /\ UNCHANGED <<slice_dif, confidence_map, sr_original, sr_addon>>
       /\ PhaseFrame

NextPhases ==
    \/ SuperresolutionEntry
    \/ SuperresolutionDifference
    \/ SuperresolutionAddon
    \/ SuperresolutionUpdate
    \/ SuperresolutionRegularization
    \/ SuperresolutionBias

SpecPhases == InitSR /\ [][NextPhases]_vars

\* the phases of one call, in the order of the claim
PhaseOrder ==
    <<"entry", "SliceDifference", "addon", "update", "AdaptiveRegularization">>
        \o (IF params.global_bias_correction THEN <<"BiasCorrectVolume">> ELSE <<>>)

\* C16: the phases of a Superresolution call run in the order slice
\* residuals, addon, update with clamp, adaptive regularization, bias
\* correction; bias correction runs exactly when _global_bias_correction is
\* set; regularization and bias correction are handed the volume of entry.
C16_PhaseOrder ==
    /\ Len(sr_log) <= Len(PhaseOrder)
    /\ \A k \in 1..Len(sr_log) : sr_log[k][1] = PhaseOrder[k]
    /\ (sr_pc = "idle" /\ last = "Superresolution") => Len(sr_log) = Len(PhaseOrder)
    /\ \A k \in 1..Len(sr_log) :
           sr_log[k][1] \in {"AdaptiveRegularization", "BiasCorrectVolume"}
               => sr_log[k][2] = sr_log[1][2]

\* a call with bias correction has returned whose update changed the volume
C16_Witness ==
    /\ sr_pc = "idle"
    /\ last = "Superresolution"
    /\ params.global_bias_correction
    /\ Len(sr_log) = 6
    /\ sr_log[4][2] # sr_log[1][2]

(***************************************************************************)
(* Specification SpecPackage: one package registration, PackageToVolume or *)
(* newPackageToVolume (every multiband factor 1, all stacks in one step),  *)
(* on the slices of one or two stacks.  A registration returns any pose    *)
(* of RegPoses; the origin offset put on its first guess is taken off its  *)
(* result again, so the result is kept as the pose the slices receive.     *)
(***************************************************************************)
\* the stacks of the run: one or two stacks <<z, packages>>
PackStackArrays ==
    LET one == {zp \in (1..MaxPackZ) \X (1..MaxPackZ) : zp[2] <= zp[1]}
    IN {<<a>> : a \in one} \cup {<<a, b>> : a \in one, b \in one}

\* the poses a package registration returns
RegPoses == {1, 2}

\* lines 3393-3399: the index of the first slice of stack i (counted from 1)
RECURSIVE FirstSlice(_)
FirstSlice(i) == IF i = 1 THEN 0 ELSE FirstSlice(i - 1) + stacks[i - 1]

PackageIds == {id \in (1..Len(stacks)) \X (0..(MaxPackZ - 1)) : id[2] < pack_num[id[1]]}

\* a split into blocks of neighbouring slices
SplitImageBlocks(z, packages) ==
    [l \in 0..(packages - 1) |->
        LET pkg_z == z \div packages
            size  == IF pkg_z * packages + l < z THEN pkg_z + 1 ELSE pkg_z
        IN [k \in 0..(size - 1) |-> l * pkg_z + k]]

\* lines 3287-3328: package l holds, as its slice k, slice k * packages + l
SplitImage(z, packages) ==
    [l \in 0..(packages - 1) |->
        LET pkg_z == z \div packages
            size  == IF pkg_z * packages + l < z THEN pkg_z + 1 ELSE pkg_z
        IN [k \in 0..(size - 1) |-> k * packages + l]]

\* lines 3463-3467: the slice indices of the package id
PackageSlices(id) ==
    LET package == SplitImage(stacks[id[1]], pack_num[id[1]])[id[2]]
    IN {FirstSlice(id[1]) + package[k] : k \in DOMAIN package}

\* lines 3389-3490
PackageToVolume ==
    /\ pc = "run"
    /\ last = "CreateSlicesAndTransformations"
    /\ last' = "PackageToVolume"
    /\ \E reg \in [PackageIds -> RegPoses] :
        IF \E id \in PackageIds : \E x \in PackageSlices(id) : x >= Size(transformations)
        THEN /\ pc' = "fatal"
             /\ UNCHANGED <<transformations, package_pose>>
        ELSE /\ pc' = pc
             /\ package_pose' = reg
             /\ transformations' =
                    [x \in DOMAIN transformations |->
                        IF \E id \in PackageIds : x \in PackageSlices(id)
                        THEN reg[CHOOSE id \in PackageIds : x \in PackageSlices(id)]
                        ELSE transformations[x]]
    /\ UNCHANGED <<orderVars, matchVars, nccVars, phaseVars, laterVars, slice_positive,
                   previous_transformations, partVars, volumeVars, slices, force_excluded,
                   coeffVars, small_slices, simVars, emVars>>

\* lines 3010-3026 and 3206-3212: the acquisition times of package p of a
\* stack of z slices, the first z % packages packages holding one more
PackageTimes(z, packages, p) ==
    LET pkg_z == z \div packages
        extra == z % packages
        start == p * pkg_z + (IF p < extra THEN p ELSE extra)
        size  == IF p < extra THEN pkg_z + 1 ELSE pkg_z
    IN start..(start + size - 1)

\* the order GetSliceAcquisitionOrder computes for stack i
OrderOfStack(i) == StackOrder(stacks[i], pack_num[i], order[i], step, rewinder)

\* lines 3012-3026: the slice indices splitPackages copies into package id
PackageContent(id) ==
    {FirstSlice(id[1]) + OrderOfStack(id[1]).zo[sl] :
        sl \in PackageTimes(stacks[id[1]], pack_num[id[1]], id[2])}

\* lines 3214-3226: the slice indices that receive the pose of package id
SavedSlices(id) ==
    {FirstSlice(id[1]) + l : l \in {n \in 0..(stacks[id[1]] - 1) :
        OrderOfStack(id[1]).to[n] \in PackageTimes(stacks[id[1]], pack_num[id[1]], id[2])}}

\* lines 3183-3186: tmax > 0 fails for the target of package id
EmptyTarget(id) == \A x \in PackageContent(id) : ~slice_positive[x]

\* lines 3126-3281
newPackageToVolume ==
    /\ pc = "run"
    /\ last = "CreateSlicesAndTransformations"
    /\ last' = "newPackageToVolume"
    /\ previous_transformations' = transformations
    /\ \E reg \in [PackageIds -> RegPoses] :
        LET internal(id) == IF EmptyTarget(id)
                            THEN transformations[FirstSlice(id[1]) + id[2]]
                            ELSE reg[id]
        IN /\ package_pose' = [id \in PackageIds |->
                                  IF EmptyTarget(id) THEN "none" ELSE reg[id]]
           /\ transformations' =
                  [x \in DOMAIN transformations |->
                      IF \E id \in PackageIds : x \in SavedSlices(id)
                      THEN internal(CHOOSE id \in PackageIds : x \in SavedSlices(id))
                      ELSE transformations[x]]
    /\ z_slice_order' = <<>>
    /\ t_slice_order' = <<>>
    /\ UNCHANGED <<pc, stacks, pack_num, order, step, rewinder, matchVars, nccVars, phaseVars, laterVars,
                   slice_positive, partVars, volumeVars, slices, force_excluded, coeffVars,
                   small_slices, simVars, emVars>>

InitPackage ==
    /\ pc = "run"
    /\ MatchIdle
    /\ NccIdle
    /\ PhaseIdle
    /\ LaterIdle
    /\ PartIdle
    /\ \E a \in PackStackArrays :
        /\ stacks = [i \in 1..Len(a) |-> a[i][1]]
        /\ pack_num = [i \in 1..Len(a) |-> a[i][2]]
        /\ order = [i \in 1..Len(a) |-> 1]
    /\ step = 1
    /\ rewinder = 1
    /\ z_slice_order = <<>>
    /\ t_slice_order = <<>>
    /\ last = "CreateSlicesAndTransformations"
    /\ template_created = TRUE
    /\ have_mask = TRUE
    /\ reconstructed = [x \in Voxels |-> 1000]
    /\ mask = [x \in Voxels |-> 1]
    /\ LET total == FirstSlice(Len(stacks) + 1)
           all   == 0..(total - 1)
       IN /\ slice_positive \in {[x \in all |-> TRUE], [x \in all |-> x % 2 = 0],
                                 [x \in all |-> x % 2 = 1]}
          /\ slices = [x \in all |-> [j \in Pixels |-> IF slice_positive[x] THEN 1000 ELSE 0]]
          /\ transformations \in {[x \in all |-> 0], [x \in all |-> x % 4]}
          /\ simulated_slices = [x \in all |-> [j \in Pixels |-> 0]]
          /\ simulated_weights = [x \in all |-> [j \in Pixels |-> 1000]]
          /\ simulated_inside = [x \in all |-> [j \in Pixels |-> 1000]]
          /\ slice_dif = [x \in all |-> [j \in Pixels |-> 0]]
          /\ stack_index = [x \in all |->
                               CHOOSE i \in 1..Len(stacks) :
                                   FirstSlice(i) <= x /\ x < FirstSlice(i + 1)]
    /\ previous_transformations = EmptyArray
    /\ package_pose = EmptyArray
    /\ force_excluded = EmptyArray
    /\ volcoeffs = EmptyArray
    /\ slice_inside = EmptyArray
    /\ volume_weights = EmptyArray
    /\ average_volume_weight = 0
    /\ small_slices = EmptyArray
    /\ weights = EmptyArray
    /\ bias = EmptyArray
    /\ scale = EmptyArray
    /\ slice_weight = EmptyArray
    /\ slice_potential = EmptyArray
    /\ min_intensity = 0
    /\ max_intensity = 0
    /\ iter = 0
    /\ robust = [sigma |-> 0, mix |-> 900, m |-> 0, sigma_s |-> 25, sigma_s2 |-> 25,
                 mix_s |-> 900, mean_s |-> 0, mean_s2 |-> 0]
    /\ params = DefaultParams

NextPackage ==
    \/ PackageToVolume
    \/ newPackageToVolume

SpecPackage == InitPackage /\ [][NextPackage]_vars

\* C17: after PackageToVolume every slice position of every stack lies in
\* exactly one package of SplitImage, the package position mod pack_num; the
\* package sizes differ by at most one; and every slice of a package has the
\* pose the registration of that package returned.
C17_Packages ==
    last = "PackageToVolume"
        => \A i \in 1..Len(stacks) :
               LET split == SplitImage(stacks[i], pack_num[i])
                   Holds(l, z) == \E k \in DOMAIN split[l] : split[l][k] = z
               IN /\ \A z \in 0..(stacks[i] - 1) : \A l \in DOMAIN split :
                         Holds(l, z) <=> l = z % pack_num[i]
                  /\ \A l \in DOMAIN split : \A k, n \in DOMAIN split[l] :
                         split[l][k] = split[l][n] => k = n
                  /\ \A l, n \in DOMAIN split : Size(split[l]) - Size(split[n]) <= 1
                  /\ \A l \in DOMAIN split : \A k \in DOMAIN split[l] :
                         transformations[FirstSlice(i) + split[l][k]] = package_pose[<<i, l>>]

\* PackageToVolume ran on a stack of 3 slices in 2 packages whose
\* registrations returned different poses
C17_Witness ==
    /\ last = "PackageToVolume"
    /\ \E i \in 1..Len(stacks) :
        /\ stacks[i] = 3
        /\ pack_num[i] = 2
        /\ package_pose[<<i, 0>>] # package_pose[<<i, 1>>]
        /\ transformations[FirstSlice(i)] = transformations[FirstSlice(i) + 2]
        /\ transformations[FirstSlice(i)] # transformations[FirstSlice(i) + 1]

\* C18: after newPackageToVolume, a package whose target was empty had no
\* registration and every slice of that package has the pose it had before
\* the call.
C18_EmptyPackage ==
    last = "newPackageToVolume"
        => \A id \in PackageIds :
               EmptyTarget(id)
                   => /\ package_pose[id] = "none"
                      /\ \A x \in PackageContent(id) :
                             transformations[x] = previous_transformations[x]

(***************************************************************************)
(* Specification SpecRegistered: the reconstruction steps of SpecRecon on  *)
(* slices that come with the poses of an earlier registration, so that a   *)
(* slice can lie outside the volume in the first Gaussian reconstruction   *)
(* and inside it in a later one.                                           *)
(***************************************************************************)
InitRegistered ==
    /\ pc = "run"
    /\ OrderIdle
    /\ OtherIdle
    /\ last = "CreateSlicesAndTransformations"
    /\ template_created = TRUE
    /\ have_mask = TRUE
    /\ reconstructed = [x \in Voxels |-> 0]
    /\ mask = [x \in Voxels |-> 1]
    /\ slices \in SliceArrays
    /\ transformations \in PoseArrays
    /\ force_excluded = SetToArray({3})
    /\ volcoeffs = EmptyArray
    /\ slice_inside = EmptyArray
    /\ volume_weights = EmptyArray
    /\ average_volume_weight = 0
    /\ small_slices = EmptyArray
    /\ simulated_slices = [i \in Slices |-> [j \in Pixels |-> 0]]
    /\ simulated_weights = [i \in Slices |-> [j \in Pixels |-> 1000]]
    /\ simulated_inside = [i \in Slices |-> [j \in Pixels |-> 1000]]
    /\ weights = EmptyArray
    /\ bias = EmptyArray
    /\ scale = EmptyArray
    /\ slice_weight = EmptyArray
    /\ slice_potential = EmptyArray
    /\ min_intensity = 0
    /\ max_intensity = 0
    /\ iter = 0
    /\ robust = [sigma |-> 0, mix |-> 900, m |-> 0, sigma_s |-> 25, sigma_s2 |-> 25,
                 mix_s |-> 900, mean_s |-> 0, mean_s2 |-> 0]
    /\ params = DefaultParams
    /\ slice_dif = [i \in Slices |-> [j \in Pixels |-> 0]]
    /\ stack_index = [i \in Slices |-> i \div 2]
    /\ PartIdle

SpecRegistered == InitRegistered /\ [][NextRecon]_vars

\* C19: no step of a run takes a slice index off _small_slices or off
\* _force_excluded.
C19_Monotonic ==
    [][/\ \A i \in Slices : Listed(small_slices, i) => Listed(small_slices', i)
       /\ \A i \in Slices : Listed(force_excluded, i) => Listed(force_excluded', i)]_vars

(***************************************************************************)
(* RemoteSliceToVolumeRegistration, lines 1425-1537, the rigid case.       *)
(*                                                                         *)
(* A pose is an integer translation here: the product of two matrices is   *)
(* the sum of the translations, the inverse of a matrix its negation.  The *)
(* call is modelled statement by statement: "write" (lines 1470-1477),     *)
(* "stride" (one turn of the loop of lines 1480-1486) and the read of      *)
(* lines 1489-1496 that ends the call.                                     *)
(***************************************************************************)
stride == 32

MaxRemoteSlices == 66

MaxRemoteCalls == 2

MaxRemoteIter == 3

\* the slice counts of the model: around one and two strides
RemoteCounts == {0, 1, 5, stride - 1, stride, stride + 1, 2 * stride, MaxRemoteSlices}

\* lines 508-519: ResetOrigin returns the origin of the resampled slice
ResetOrigin(inputIndex) == 1 + (inputIndex % 2)

\* what the remote registration adds to the poses of the range it is given
RegShifts == {0, 1}

\* lines 1438-1467: the locals of the call, and for iter < 3 the offsets of
\* the slices
RemoteSliceToVolumeRegistration ==
    /\ pc = "run"
    /\ remote_pc = "idle"
    /\ remote_calls < MaxRemoteCalls
    /\ remote_calls' = remote_calls + 1
    /\ \E it \in 0..MaxRemoteIter :
        offset_matrices' = IF it < 3
                           THEN [inputIndex \in DOMAIN slices |-> ResetOrigin(inputIndex)]
                           ELSE offset_matrices
    /\ svr_range_start' = 0
    /\ svr_range_stop' = 0 + stride
    /\ svr_ranges' = <<>>
    /\ remote_pc' = "write"
    /\ last' = "RemoteSliceToVolumeRegistration"
    /\ UNCHANGED <<pc, dof_files, orderVars, matchVars, nccVars, phaseVars, packVars, layoutVars, tailVars,
                   partVars, volumeVars, sliceVars, coeffVars, small_slices, simVars, emVars>>

\* the offset of a slice, g where _offset_matrices has no such entry
OffsetOf(inputIndex, g) ==
    IF inputIndex \in DOMAIN offset_matrices THEN offset_matrices[inputIndex] ELSE g

\* the slices whose offset is read from outside _offset_matrices
MissingOffsets == DOMAIN slices \ DOMAIN offset_matrices

\* lines 1470-1477: the pose of every slice, times its offset, is written
RemoteWritePoses ==
    /\ pc = "run"
    /\ remote_pc = "write"
    /\ \/ /\ \E g \in (IF MissingOffsets = {} THEN {0} ELSE GarbageValues) :
               dof_files' = [inputIndex \in DOMAIN slices |->
                                transformations[inputIndex] + OffsetOf(inputIndex, g)]
          /\ remote_pc' = "stride"
          /\ pc' = pc
       \/ /\ MissingOffsets # {}
          /\ pc' = "crashed"
          /\ UNCHANGED <<dof_files, remote_pc>>
    /\ UNCHANGED <<last, offset_matrices, svr_range_start, svr_range_stop, svr_ranges,
                   remote_calls, orderVars, matchVars, nccVars, phaseVars, packVars, layoutVars, tailVars,
                   partVars, volumeVars, sliceVars, coeffVars, small_slices, simVars, emVars>>

\* Parallel::RemoteSliceToVolumeRegistration: the pose files of the slices
\* of the range are replaced by the registered poses
RemoteRegistered(files, start, stop, d) ==
    [inputIndex \in DOMAIN files |->
        IF start <= inputIndex /\ inputIndex < stop
        THEN files[inputIndex] + d ELSE files[inputIndex]]

\* lines 1480-1486: one turn of the loop over the strides
RemoteStride ==
    /\ pc = "run"
    /\ remote_pc = "stride"
    /\ svr_range_start < Size(slices)
    /\ svr_ranges' = Append(svr_ranges, <<svr_range_start, svr_range_stop>>)
    /\ \E d \in RegShifts :
        dof_files' = RemoteRegistered(dof_files, svr_range_start, svr_range_stop, d)
    /\ svr_range_start' = svr_range_stop
    /\ svr_range_stop' = IF svr_range_stop + stride < Size(slices)
                         THEN svr_range_stop + stride ELSE Size(slices)
    /\ UNCHANGED <<pc, last, offset_matrices, remote_pc, remote_calls, orderVars, matchVars,
                   nccVars, phaseVars, packVars, layoutVars, tailVars, partVars, volumeVars, sliceVars, coeffVars,
                   small_slices, simVars, emVars>>

\* lines 1489-1496: the loop has ended, the poses are read back and the
\* offsets undone
RemoteReadPoses ==
    /\ pc = "run"
    /\ remote_pc = "stride"
    /\ svr_range_start >= Size(slices)
    /\ \/ /\ \E g \in (IF MissingOffsets = {} THEN {0} ELSE GarbageValues) :
               transformations' = [inputIndex \in DOMAIN slices |->
                                      dof_files[inputIndex] - OffsetOf(inputIndex, g)]
          /\ remote_pc' = "idle"
          /\ pc' = pc
       \/ /\ MissingOffsets # {}
          /\ pc' = "crashed"
          /\ UNCHANGED <<transformations, remote_pc>>
    /\ UNCHANGED <<last, offset_matrices, dof_files, svr_range_start, svr_range_stop,
                   svr_ranges, remote_calls, orderVars, matchVars, nccVars, phaseVars, packVars,
                   layoutVars, tailVars, partVars, volumeVars, slices, force_excluded, coeffVars, small_slices,
                   simVars, emVars>>

(***************************************************************************)
(* Specification SpecRemote: an object with its slices, then remote        *)
(* registrations; LoadModelRemote may load the slices in between.          *)
(***************************************************************************)
InitRemote ==
    /\ pc = "run"
    /\ OrderIdle
    /\ OtherIdle
    /\ NoSliceState
    /\ \E n \in RemoteCounts :
        /\ slices = [inputIndex \in 0..(n - 1) |-> [j \in Pixels |-> 1000]]
        /\ transformations = [inputIndex \in 0..(n - 1) |-> 0]

NextRemote ==
    \/ RemoteSliceToVolumeRegistration
    \/ RemoteWritePoses
    \/ RemoteStride
    \/ RemoteReadPoses
    \/ (remote_pc = "idle" /\ LoadModelRemote)

SpecRemote == InitRemote /\ [][NextRemote]_vars

\* C21: with N slices the remote registration is invoked on consecutive
\* ranges [start, stop) with 0 <= start < stop <= N and stop - start <= 32;
\* the ranges are pairwise disjoint, and when the loop has ended they cover
\* every slice index 0..N-1 exactly once.
C21_Ranges ==
    LET N == Size(slices)
        covered(k) == {i \in 0..(N - 1) : svr_ranges[k][1] <= i /\ i < svr_ranges[k][2]}
    IN /\ \A k \in DOMAIN svr_ranges :
            /\ 0 <= svr_ranges[k][1]
            /\ svr_ranges[k][1] < svr_ranges[k][2]
            /\ svr_ranges[k][2] <= N
            /\ svr_ranges[k][2] - svr_ranges[k][1] <= stride
            /\ k > 1 => svr_ranges[k][1] = svr_ranges[k - 1][2]
       /\ \A k, l \in DOMAIN svr_ranges : k # l => covered(k) \cap covered(l) = {}
       /\ (remote_pc = "stride" /\ svr_range_start >= N) =>
              UNION {covered(k) : k \in DOMAIN svr_ranges} = 0..(N - 1)

\* C29: whenever the poses are written to or read back from the exchange
\* directory, _offset_matrices holds exactly one offset per current slice.
C29_Offsets ==
    remote_pc \in {"write", "stride"} => Size(offset_matrices) = Size(slices)

(***************************************************************************)
(* The per-slice arrays: CreateSlicesAndTransformations, UpdateSlices,     *)
(* ResetSlices, InitializeEM and LoadModelRemote.                          *)
(***************************************************************************)
MaxStackZ == 3

\* lines 1211-1224: the loops of UpdateSlices push every position of every
\* stack
RECURSIVE UpdateLoop(_, _, _, _)
UpdateLoop(st, i, j, made) ==
    IF i >= Size(st) THEN made
    ELSE IF j >= Size(st[i]) THEN UpdateLoop(st, i + 1, 0, made)
    ELSE UpdateLoop(st, i, j + 1, Append(made, st[i][j]))

\* lines 1207-1226: _slices after UpdateSlices(stacks, thickness)
UpdatedSlices(st) ==
    LET made == UpdateLoop(st, 0, 0, <<>>)
    IN [n \in 0..(Len(made) - 1) |-> made[n + 1]]

\* lines 1207-1226
UpdateSlices ==
    /\ pc = "run"
    /\ image_stacks # EmptyArray
    /\ slices' = UpdatedSlices(image_stacks)
    /\ last' = "UpdateSlices"
    /\ UNCHANGED <<pc, orderVars, otherVars, partVars, volumeVars, transformations,
                   force_excluded, coeffVars, small_slices, simVars, emVars>>

\* lines 1172-1176: Initialize leaves an image of zeros; entry i of _bias and
\* of _weights is written for every slice
Initialized(images, sl) ==
    [i \in DOMAIN images |-> IF i \in DOMAIN sl THEN [p \in Pixels |-> 0] ELSE images[i]]

\* lines 1166-1177: a slice without an entry in _bias or _weights is a write
\* outside the array
ResetSlices ==
    LET sl == UpdatedSlices(image_stacks)
        outside == \E i \in DOMAIN sl : i \notin DOMAIN bias \/ i \notin DOMAIN weights
    IN /\ pc = "run"
       /\ image_stacks # EmptyArray
       /\ slices' = sl
       /\ last' = "ResetSlices"
       /\ \/ /\ bias' = Initialized(bias, sl)
             /\ weights' = Initialized(weights, sl)
             /\ pc' = pc
          \/ /\ outside
             /\ pc' = "crashed"
             /\ UNCHANGED <<bias, weights>>
       /\ UNCHANGED <<orderVars, otherVars, partVars, volumeVars, transformations,
                      force_excluded, coeffVars, small_slices, simVars, scale, slice_weight,
                      slice_potential, min_intensity, max_intensity, robust, iter>>

(***************************************************************************)
(* Specification SpecSlices: the constructed object and two input stacks,  *)
(* then the operations that create or replace the per-slice arrays, in any *)
(* order.                                                                  *)
(***************************************************************************)
LayoutStacks ==
    {[i \in 0..1 |-> [j \in 0..(zs[i + 1] - 1) |-> [p \in Pixels |-> 1000 * (i + 1) + 100 * j]]] :
        zs \in (1..MaxStackZ) \X (1..MaxStackZ)}

InitSlices ==
    /\ pc = "run"
    /\ OrderIdle
    /\ ReconIdle
    /\ NccIdle
    /\ PhaseIdle
    /\ PackIdle
    /\ RemoteIdle
    /\ TailIdle
    /\ image_stacks \in LayoutStacks
    /\ stack_roi = EmptyArray
    /\ original_stacks = image_stacks
    /\ stack_factor = EmptyArray
    /\ average_value = 0
    /\ cerr_stack = -1
    /\ slice_pos = EmptyArray
    /\ package_index = EmptyArray
    /\ excluded_entirely \in {EmptyArray, SetToArray({1}), SetToArray({0, 2})}
    /\ n_packages \in {EmptyArray, [i \in 0..1 |-> 3 - i]}
    /\ stack_transformations = [i \in 0..1 |-> i + 1]

NextSlices ==
    \/ CreateSlicesAndTransformations
    \/ InitializeEM
    \/ UpdateSlices
    \/ ResetSlices
    \/ LoadModelRemote

SpecSlices == InitSlices /\ [][NextSlices]_vars

\* the package count of stack i: 1 when no package counts are set
PackageCount(i) == IF n_packages = EmptyArray THEN 1 ELSE n_packages[i]

\* C22: after CreateSlicesAndTransformations the slices are stored in stack
\* order: the stack index of consecutive slices never decreases, within one
\* stack the slice position strictly increases, and every slice has the pose
\* of its stack, gating weight 1 and the package index of its position
\* modulo the package count of its stack (0 when no package counts are set).
C22_StackOrder ==
    last = "CreateSlicesAndTransformations" =>
        /\ \A n \in DOMAIN slices :
            /\ transformations[n] = stack_transformations[stack_index[n]]
            /\ reg_slice_weight[n] = 1000
            /\ package_index[n] = slice_pos[n] % PackageCount(stack_index[n])
            /\ slices[n] = image_stacks[stack_index[n]][slice_pos[n]]
        /\ \A n \in DOMAIN slices : n > 0 =>
            /\ stack_index[n - 1] <= stack_index[n]
            /\ stack_index[n - 1] = stack_index[n] => slice_pos[n - 1] < slice_pos[n]

\* slices were created of two stacks with different poses, a position was
\* excluded entirely and some slice lies in a package other than the first
C22_Witness ==
    /\ last = "CreateSlicesAndTransformations"
    /\ excluded_entirely # EmptyArray
    /\ \E n \in DOMAIN slices : package_index[n] = 2 /\ slice_pos[n] = 2
    /\ \E n, k \in DOMAIN slices : transformations[n] # transformations[k]
    /\ \E n \in DOMAIN slices : n > 0 /\ stack_index[n - 1] < stack_index[n]

\* C27: after any sequence of CreateSlicesAndTransformations, InitializeEM,
\* UpdateSlices, ResetSlices and LoadModelRemote every per-slice array has
\* exactly one entry per slice, and so have the bias, voxel-weight, scale and
\* slice-weight arrays once they hold an entry, also when positions are
\* listed in _excluded_entirely.
C27_Sizes ==
    LET N == Size(slices)
        Created(a) == Size(a) > 0 => Size(a) = N
    IN pc = "run" =>
        /\ Size(stack_index) = N
        /\ Size(transformations) = N
        /\ Size(slice_pos) = N
        /\ Size(simulated_slices) = N
        /\ Size(simulated_weights) = N
        /\ Size(reg_slice_weight) = N
        /\ Created(bias)
        /\ Created(weights)
        /\ Created(scale)
        /\ Created(slice_weight)

(***************************************************************************)
(* CropImage, lines 3495-3575.  The mask is the set of its voxels above 0, *)
(* a voxel the triple <<i, j, k>>; the image is the region                 *)
(* <<x1, y1, z1, x2, y2, z2>> of the input it holds, x2, y2 and z2         *)
(* exclusive as in GetRegion.                                              *)
(***************************************************************************)
CropX == 3

CropY == 2

CropZ == 2

CropVoxels == (0..(CropX - 1)) \X (0..(CropY - 1)) \X (0..(CropZ - 1))

\* the masks of the model: no voxel, one voxel, or two voxels above 0
CropMasks == {{a, b} : a, b \in CropVoxels} \cup {{}}

\* lines 3498-3507, 3522-3531 and 3546-3555: the loop runs down from n - 1
\* and stops at the first plane with a mask voxel above 0; without one it
\* ends with -1
UpperBoundary(m, axis, n) ==
    LET planes == {v[axis] : v \in m}
    IN IF planes = {} THEN 0 - 1
       ELSE CHOOSE k \in planes : \A l \in planes : l <= k

\* lines 3510-3519, 3534-3543 and 3558-3567: the loop runs up from 0; without
\* a plane with a mask voxel above 0 it ends with n
LowerBoundary(m, axis, n) ==
    LET planes == {v[axis] : v \in m}
    IN IF planes = {} THEN n
       ELSE CHOOSE k \in planes : \A l \in planes : k <= l

\* line 3570: the test for a mask that does not intersect the image
NoIntersection(x1, y1, z1, x2, y2, z2) == (x2 <= x1) \/ (y2 <= y1) \/ (z2 <= z1)

\* line 3571: the region with all its bounds reset to 0, which GetRegion
\* receives as the voxel at the origin
ResetRegion == <<0, 0, 0, 0 + 1, 0 + 1, 0 + 1>>

\* lines 3569-3574: the region handed to GetRegion
CropRegion(m) ==
    LET x1 == LowerBoundary(m, 1, CropX)
        y1 == LowerBoundary(m, 2, CropY)
        z1 == LowerBoundary(m, 3, CropZ)
        x2 == UpperBoundary(m, 1, CropX)
        y2 == UpperBoundary(m, 2, CropY)
        z2 == UpperBoundary(m, 3, CropZ)
    IN IF NoIntersection(x1, y1, z1, x2, y2, z2)
       THEN ResetRegion
       ELSE <<x1, y1, z1, x2 + 1, y2 + 1, z2 + 1>>

\* lines 3495-3575
CropImage ==
    /\ pc = "run"
    /\ last = "none"
    /\ crop_image' = CropRegion(crop_mask)
    /\ last' = "CropImage"
    /\ UNCHANGED <<pc, crop_mask, voxel_num, reportVars, orderVars, matchVars, nccVars, phaseVars, packVars,
                   remoteVars, layoutVars, partVars, volumeVars, sliceVars, coeffVars, small_slices,
                   simVars, emVars>>

(***************************************************************************)
(* Specification SpecCrop: an image and a mask, then CropImage.            *)
(***************************************************************************)
InitCrop ==
    /\ pc = "run"
    /\ OrderIdle
    /\ ReconIdle
    /\ MatchIdle
    /\ NccIdle
    /\ PhaseIdle
    /\ PackIdle
    /\ RemoteIdle
    /\ LayoutIdle
    /\ voxel_num = EmptyArray
    /\ ReportIdle
    /\ crop_mask \in CropMasks
    /\ crop_image = <<0, 0, 0, CropX, CropY, CropZ>>

NextCrop == CropImage

SpecCrop == InitCrop /\ [][NextCrop]_vars

\* the bounding box of a set of voxels that is not empty
BoundingBox(m) ==
    <<LowerBoundary(m, 1, CropX), LowerBoundary(m, 2, CropY), LowerBoundary(m, 3, CropZ),
      UpperBoundary(m, 1, CropX) + 1, UpperBoundary(m, 2, CropY) + 1,
      UpperBoundary(m, 3, CropZ) + 1>>

\* C23: CropImage with a mask without a voxel above 0 leaves the reset
\* region; with a mask that has a voxel above 0, also one that is one voxel
\* thick along some axis, it leaves exactly the bounding box of the mask
\* voxels above 0.
C23_Crop ==
    last = "CropImage" =>
        IF crop_mask = {} THEN crop_image = ResetRegion
        ELSE crop_image = BoundingBox(crop_mask)

(***************************************************************************)
(* Specification SpecPadded: the state after CoeffInit and the EM          *)
(* initialisation, then the operations that read the slice pixels.         *)
(***************************************************************************)
NextPadded ==
    \/ InitializeEMValues
    \/ GaussianReconstruction
    \/ Superresolution
    \/ SimulateSlices
    \/ SimulateStacks

SpecPadded == InitSR /\ [][NextPadded]_vars

\* the pixels of value -1
Padded == {s \in Slices \X Pixels : slices[s[1]][s[2]] = 0 - 1000}

\* the values of the pixels that are not padded and have a coefficient at
\* voxel x
Contributing(x) ==
    {Corrected(s[1], s[2]) :
        s \in {t \in (Slices \X Pixels) \ Padded :
                  \E k \in DOMAIN volcoeffs[t[1]][t[2]] : volcoeffs[t[1]][t[2]][k].x = x}}

\* C25: a padded slice pixel (value -1) is excluded everywhere: after
\* InitializeEMValues its voxel weight is 0, after SliceDifference its
\* residual is 0, GaussianReconstruction adds nothing from it to the volume
\* (every voxel is 0 or lies between the smallest and the largest value of
\* the other pixels that cover it) and does not count it as a covered pixel,
\* and the simulations leave its simulated value 0.
C25_Padded ==
    /\ \A s \in Padded :
        /\ last = "InitializeEMValues" => weights[s[1]][s[2]] = 0
        /\ last = "Superresolution" => slice_dif[s[1]][s[2]] = 0
        /\ last = "SimulateSlices" => simulated_slices[s[1]][s[2]] = 0
        /\ (last = "SimulateStacks" /\ pc = "run")
               => sim_stacks[stack_index[s[1]]][ZOf(s[1])][s[2]] = 0
    /\ last = "GaussianReconstruction" =>
        /\ \A i \in DOMAIN voxel_num :
               voxel_num[i] <= Cardinality({j \in Pixels : <<i, j>> \notin Padded})
        /\ \A x \in Voxels :
               IF Contributing(x) = {} THEN reconstructed[x] = 0
               ELSE /\ \E v \in Contributing(x) : v <= reconstructed[x]
                    /\ \E v \in Contributing(x) : reconstructed[x] <= v

\* a slice with a padded pixel was reconstructed into a volume above 0 after
\* a super-resolution step left a residual for its other pixel
C25_Witness ==
    /\ last = "GaussianReconstruction"
    /\ Padded # {}
    /\ \E s \in Padded : voxel_num[s[1]] = NumPixels - 1
    /\ \A x \in Voxels : reconstructed[x] > 0
    /\ \E s \in Padded : \E j \in Pixels : slice_dif[s[1]][j] # 0

(***************************************************************************)
(* The reports: ReconQualityReport, Evaluate and SlicesInfo.               *)
(***************************************************************************)
\* lines 537-540: count_excluded
CountExcluded == Cardinality({i \in DOMAIN slices : slice_weight[i] < 500})

\* lines 523-543: ratio_excluded = count_excluded / _slices.size(), kept as
\* the pair of the two numbers
ReconQualityReport ==
    /\ pc = "run"
    /\ ratio_excluded' = <<CountExcluded, Size(slices)>>
    /\ last' = "ReconQualityReport"
    /\ UNCHANGED <<pc, evaluate_out, slices_info, cropVars, voxel_num, orderVars, matchVars,
                   nccVars, phaseVars, packVars, remoteVars, layoutVars, partVars, volumeVars,
                   sliceVars, coeffVars, small_slices, simVars, emVars>>

\* lines 2512-2525: the three lists of Evaluate
EvaluateLists ==
    [included |-> {i \in DOMAIN slices : slice_inside[i] /\ slice_weight[i] >= 500},
     excluded |-> {i \in DOMAIN slices : slice_inside[i] /\ ~(slice_weight[i] >= 500)},
     outside  |-> {i \in DOMAIN slices : ~slice_inside[i]}]

\* lines 2506-2533
Evaluate ==
    /\ pc = "run"
    /\ evaluate_out' = EvaluateLists
    /\ last' = "Evaluate"
    /\ UNCHANGED <<pc, ratio_excluded, slices_info, cropVars, voxel_num, orderVars, matchVars,
                   nccVars, phaseVars, packVars, remoteVars, layoutVars, partVars, volumeVars,
                   sliceVars, coeffVars, small_slices, simVars, emVars>>

\* lines 2720-2722: the included, excluded and outside columns of slice i
SlicesInfoRow(i) ==
    [included |-> IF slice_weight[i] >= 500 /\ slice_inside[i] THEN 1 ELSE 0,
     excluded |-> IF slice_weight[i] < 500 /\ slice_inside[i] THEN 1 ELSE 0,
     outside  |-> IF ~slice_inside[i] THEN 1 ELSE 0]

\* lines 2699-2736
SlicesInfo ==
    /\ pc = "run"
    /\ slices_info' = [i \in DOMAIN slices |-> SlicesInfoRow(i)]
    /\ last' = "SlicesInfo"
    /\ UNCHANGED <<pc, ratio_excluded, evaluate_out, cropVars, voxel_num, orderVars, matchVars,
                   nccVars, phaseVars, packVars, remoteVars, layoutVars, partVars, volumeVars,
                   sliceVars, coeffVars, small_slices, simVars, emVars>>

(***************************************************************************)
(* Specification SpecReport: the state after CoeffInit and the EM          *)
(* initialisation; the robust statistics may be initialised, then the      *)
(* reports are written, all of the same state.                             *)
(***************************************************************************)
NextReport ==
    \/ (ReportIdle /\ InitializeRobustStatistics)
    \/ ReconQualityReport
    \/ Evaluate
    \/ SlicesInfo

SpecReport == InitSim /\ [][NextReport]_vars

\* C28: the reports agree on which slices are excluded: ratio_excluded of
\* ReconQualityReport times the number of slices is the count of excluded
\* slices Evaluate prints and the number of slices SlicesInfo marks in its
\* excluded column, also when some slices lie outside the ROI.
C28_Agree ==
    LET marked == {i \in DOMAIN slices_info : slices_info[i].excluded = 1}
    IN /\ (DOMAIN ratio_excluded # {} /\ DOMAIN evaluate_out # {})
              => ratio_excluded[1] = Cardinality(evaluate_out.excluded)
       /\ (DOMAIN ratio_excluded # {} /\ DOMAIN slices_info # {})
              => ratio_excluded[1] = Cardinality(marked)

(***************************************************************************)
(* Specification SpecStacks: two stacks, the slices                        *)
(* CreateSlicesAndTransformations makes of them when a position may be     *)
(* excluded entirely, the state after CoeffInit and the EM initialisation, *)
(* then SimulateStacks on stacks of the same grid.                         *)
(***************************************************************************)
\* the positions excluded entirely: none, the middle one, the last one
ExcludedChoices == {EmptyArray, SetToArray({1}), SetToArray({2})}

\* the number of positions of each of the two stacks that leaves NumSlices
\* slices
StackPositions(excl) == (NumSlices \div 2) + Size(excl)

InitStacks ==
    /\ excluded_entirely \in ExcludedChoices
    /\ n_packages = EmptyArray
    /\ SimState
    /\ LET shape == [s \in 0..1 |-> [z \in 0..(StackPositions(excluded_entirely) - 1) |-> 0]]
           made == CreateLoop(shape, 0, 0, 0 - 1, <<>>)
           at(s, z) == {n \in Slices : made[n + 1].stack = s /\ made[n + 1].pos = z}
       IN /\ Len(made) = NumSlices
          /\ slice_pos = [n \in Slices |-> made[n + 1].pos]
          /\ stack_index = [n \in Slices |-> made[n + 1].stack]
          /\ package_index = [n \in Slices |-> made[n + 1].package]
          /\ image_stacks = [s \in DOMAIN shape |-> [z \in DOMAIN shape[s] |->
                                IF at(s, z) = {} THEN [j \in Pixels |-> 0]
                                ELSE slices[CHOOSE n \in at(s, z) : TRUE]]]
    /\ stack_transformations = [s \in 0..1 |-> 1]
    /\ stack_roi = EmptyArray
    /\ original_stacks = EmptyArray
    /\ stack_factor = EmptyArray
    /\ average_value = 0
    /\ cerr_stack = -1
    /\ NccIdle
    /\ PhaseIdle
    /\ PackIdle
    /\ RemoteIdle
    /\ TailIdle

NextStacks == SimulateStacks

SpecStacks == InitStacks /\ [][NextStacks]_vars

\* lines 735-753: the simulated plane of slice i
SimPlane(i) == [j \in Pixels |-> SimPixel(reconstructed, i, j, 0)]

\* C30: SimulateStacks writes the simulated plane of every slice i into
\* stack _stack_index[i] at the z position _slice_pos[i] the slice was
\* acquired at, whatever is excluded entirely: a slice with a weight of at
\* most 0.5 gives an all-zero plane there, and no plane outside the z range
\* of the stack is written.
C30_Positions ==
    (last = "SimulateStacks" /\ pc = "run"
         /\ ~\E i \in Slices, j \in Pixels : ReadsMissing(i, j))
        => /\ \A i \in Slices :
                /\ sim_stacks[stack_index[i]][slice_pos[i]] = SimPlane(i)
                /\ slice_weight[i] <= 500
                       => sim_stacks[stack_index[i]][slice_pos[i]] = [j \in Pixels |-> 0]
           /\ \A s \in DOMAIN sim_stacks : DOMAIN sim_stacks[s] = DOMAIN image_stacks[s]

(***************************************************************************)
(* Claims about the coefficients, the Gaussian reconstruction and the      *)
(* slice weights.                                                          *)
(***************************************************************************)
\* the weight of all coefficient entries of all slices and pixels that point
\* to voxel x
CoefficientEntries ==
    {<<i, j, k>> \in Slices \X Pixels \X (1..NumVoxels) :
        /\ i \in DOMAIN volcoeffs
        /\ j \in DOMAIN volcoeffs[i]
        /\ k \in DOMAIN volcoeffs[i][j]}

EntrySum(x) ==
    LET pointing == {e \in CoefficientEntries : volcoeffs[e[1]][e[2]][e[3]].x = x}
    IN SumOver([e \in pointing |-> volcoeffs[e[1]][e[2]][e[3]].value], pointing)

\* the pixels of slice i that have coefficients
CoveredCount(i) ==
    Cardinality({j \in Pixels : j \in DOMAIN volcoeffs[i] /\ Len(volcoeffs[i][j]) > 0})

\* the value a slice not listed in fe adds to voxel x, from its coefficients
\* and its corrected pixels
UnlistedSum(fe, x) ==
    SumOver([i \in Slices |-> SliceContribution(i, x)], {i \in Slices : ~Listed(fe, i)})

\* C4: a slice listed in _force_excluded (any index, slice 0 included) has
\* slice weight 0 after InitializeEMValues, after InitializeRobustStatistics
\* and after every EStep, and it adds nothing to the volume weights built by
\* CoeffInit nor to the volume built by GaussianReconstruction.
C4_ForceExcluded ==
    \A i \in Slices :
        Listed(force_excluded, i) =>
            /\ last \in {"InitializeEMValues", "InitializeRobustStatistics", "EStep"}
                   => slice_weight[i] = 0
            /\ last = "CoeffInit"
                   => \A x \in Voxels : SliceWeightAt(volcoeffs[i], x) = 0
            /\ last = "GaussianReconstruction"
                   => \A x \in Voxels :
                          volume_weights[x] # 0 =>
                              reconstructed[x] =
                                  Div(UnlistedSum(force_excluded, x), volume_weights[x])

\* C5: after every run of CoeffInit the volume weight of every voxel is the
\* sum of the weights of all coefficient entries that point to it; the map
\* is rebuilt from zero, so a second run does not accumulate.
C5_VolumeWeights ==
    last = "CoeffInit" => \A x \in Voxels : volume_weights[x] = EntrySum(x)

\* CoeffInit has run again after a Gaussian reconstruction (which needs the
\* coefficients of an earlier run), and the weights are not all zero
C5_Witness ==
    /\ last = "CoeffInit"
    /\ \E x \in Voxels : reconstructed[x] > 0
    /\ \E x \in Voxels : volume_weights[x] > 0
    /\ Size(force_excluded) > 0

\* the median count over all slices
MedianCount ==
    NthElement([i \in Slices |-> CoveredCount(i)], MedianIndex(NumSlices))

\* C6: after GaussianReconstruction _small_slices holds exactly the slice
\* indices whose count of covered pixels is below 10% of the median count
\* across all slices, for every set of force-excluded slices; in every later
\* EStep each slice listed in _small_slices gets the potential -1 and the
\* weight 0.
C6_SmallSlices ==
    /\ (last = "GaussianReconstruction" /\ pc = "run") =>
           \A i \in Slices :
               ~Listed(force_excluded, i) =>
                   (Listed(small_slices, i) <=> 10 * CoveredCount(i) < MedianCount)
    /\ last = "EStep" =>
           \A i \in Slices :
               Listed(small_slices, i) => slice_potential[i] = -1000 /\ slice_weight[i] = 0

(***************************************************************************)
(* Claims about the slice acquisition order.                               *)
(***************************************************************************)
RECURSIVE SumTo(_, _)
SumTo(s, k) == IF k = 0 THEN 0 ELSE s[k] + SumTo(s, k - 1)

\* the entries stack dyn appended to vector v, as an array indexed from 0
Segment(v, dyn) == [i \in 0..(stacks[dyn] - 1) |-> v[SumTo(stacks, dyn - 1) + i + 1]]

Returned == pc \in {"done", "done_ub", "crashed"}

ScenarioS6 ==
    /\ stacks = <<12>>
    /\ pack_num = <<4>>
    /\ order = <<3>>
    /\ step = 2
    /\ rewinder = 1

\* C1 as stated: for one stack of z=12 slices with packages=4, order code 3,
\* step=2 and rewinder=1 the z slice order is [0,4,8,1,5,9,2,6,10,3,7,11].
C1_Original ==
    (Returned /\ ScenarioS6) =>
        (pc = "done" /\ z_slice_order = <<0, 4, 8, 1, 5, 9, 2, 6, 10, 3, 7, 11>>)

\* C1 amended: for one stack of z=12 slices with packages=4, order code 3,
\* step=2 and rewinder=1 the call completes without any index out of range
\* and the z slice order is [0,8,4,1,9,5,2,10,6,3,11,7].
C1_S6Order ==
    (Returned /\ ScenarioS6) =>
        (pc = "done" /\ z_slice_order = <<0, 8, 4, 1, 9, 5, 2, 10, 6, 3, 11, 7>>)

C1_Witness == pc = "done" /\ ScenarioS6 /\ Len(z_slice_order) = 12

\* C2: for every stack of z >= 1 slices, every package count 1 <= p <= z and
\* every order code in {1, 3, 4}, the call uses no index outside 0..z-1,
\* appends exactly z entries per stack to the z slice order, which form a
\* permutation of 0..z-1, and the entries appended to the t slice order are
\* the inverse permutation.
C2_Permutation ==
    (Returned /\ \A dyn \in DOMAIN order : order[dyn] \in {1, 3, 4}) =>
        /\ pc = "done"
        /\ Len(z_slice_order) = SumTo(stacks, Len(stacks))
        /\ Len(t_slice_order) = SumTo(stacks, Len(stacks))
        /\ \A dyn \in DOMAIN stacks :
            LET zs == Segment(z_slice_order, dyn)
                ts == Segment(t_slice_order, dyn)
            IN /\ {zs[i] : i \in DOMAIN zs} = 0..(stacks[dyn] - 1)
               /\ \A i \in DOMAIN zs : ts[zs[i]] = i

C2_Witness ==
    /\ pc = "done"
    /\ Len(stacks) = 2
    /\ order = <<4, 3>>
    /\ stacks = <<3, 3>>
    /\ pack_num = <<2, 1>>
    /\ z_slice_order = <<0, 2, 1, 0, 2, 1>>

\* C3 as stated: for order code 2 every position read or written lies in
\* 0..z-1, and the positions of each package are visited in descending
\* order starting from the top of the stack.
C3_Descending ==
    (Returned /\ Len(stacks) = 1 /\ order = <<2>>) =>
        /\ pc = "done"
        /\ z_slice_order[1] = stacks[1] - 1
        /\ \A i \in 1..(stacks[1] - 1) :
            \/ z_slice_order[i + 1] = z_slice_order[i] - pack_num[1]
            \/ z_slice_order[i] < pack_num[1]

\* C24: for order code 5 and every step >= 1, rewinder >= 1, stack size z and
\* package count 1 <= p <= z, the call gives a permutation of 0..z-1 (no
\* position twice, none missing) and uses no index outside the list of the
\* positions of a package.
C24_Custom ==
    (pc \in {"done", "done_ub", "crashed"} /\ \A dyn \in DOMAIN order : order[dyn] = 5) =>
        /\ pc = "done"
        /\ \A dyn \in DOMAIN stacks :
            LET zs == Segment(z_slice_order, dyn)
            IN {zs[i] : i \in DOMAIN zs} = 0..(stacks[dyn] - 1)

====
